---- MODULE Spec2Model ----
(***************************************************************************)
(* A model of the AsyncIO reactor of CommonUtilities (src/AsyncIO.c):      *)
(* the redirect pump (redirect_Pump, redirect_AsyncIOEvent) and the event  *)
(* dispatch over the two backends (kqueue "edge-style", select             *)
(* "level-style").                                                         *)
(***************************************************************************)
EXTENDS Integers, Sequences, FiniteSets, TLC

\* ------------------------------------------------------------------------
\* Bounds of the model
\* ------------------------------------------------------------------------
\* capacity of redir->buffer (512 in the source), scaled down
BufCap == 3
\* byte values an input can deliver are 1..MaxByte (0 is calloc's fill)
MaxByte == 2
\* the record of the bytes the output accepted for one chunk saturates here
MaxOut == 5
\* the record of owner notifications of one pump invocation saturates here
MaxNotes == 3

\* ------------------------------------------------------------------------
\* Program constants
\* ------------------------------------------------------------------------
REDIR_STATE_WAITING_FOR_DATA == 1
REDIR_STATE_SENDING == 2

kAIO_REDIRECT_INPUT_CLOSED_EVENT == 1
kAIO_REDIRECT_INPUT_ERROR_EVENT == 2
kAIO_REDIRECT_OUTPUT_ERROR_EVENT == 3
kAIO_REDIRECT_DATA_READY == 4
kAIO_REDIRECT_DATA_WRITTEN == 5

VARIABLES
    \* ---- struct OpaqueAsyncIORedirect and its two handles ----
    state,              \* redir->state
    buffer,             \* redir->buffer, a sequence of BufCap bytes
    num_in_buffer,      \* redir->num_in_buffer
    in_notifyOnRead,    \* redir->anio_in->notifyOnRead
    out_notifyOnWrite,  \* redir->anio_out->notifyOnWrite
    redirLive,          \* the pump exists (FALSE after AsyncIO_ReleaseRedirect)
    fdInOpen,           \* fd_in has not been closed by the pump
    fdOutOpen,          \* fd_out has not been closed by the pump
    pumpPc,             \* "idle": redirect_Pump is not running;
                        \* "pumping": inside its while loop with done = false
    eofPending,         \* the read event being dispatched carries EV_EOF
    \* ---- the environment of the pump ----
    outCap,             \* the output accepts at most outCap bytes per write
    inEof,              \* the peer of fd_in has closed its end
    \* ---- observation of the pump ----
    chunkIn,            \* the bytes of the latest successful read
    chunkOut,           \* the bytes the output accepted since that read
    lastWrite,          \* the latest write call: bytes offered, bytes unsent,
                        \* and whether it was an odd or an even call
    chunkWritten,       \* "data written" notifications since that read (0..2)
    notes               \* owner notifications of the current pump invocation

pvars == << state, buffer, num_in_buffer, in_notifyOnRead, out_notifyOnWrite,
            redirLive, fdInOpen, fdOutOpen, pumpPc, eofPending, outCap, inEof,
            chunkIn, chunkOut, lastWrite, chunkWritten, notes >>

\* ------------------------------------------------------------------------
\* Helpers
\* ------------------------------------------------------------------------
Min(a, b) == IF a < b THEN a ELSE b

Bytes == 1..MaxByte

\* the non-empty byte strings one read can return: 1..sizeof(buffer) bytes
Chunks == UNION { [1..n -> Bytes] : n \in 1..BufCap }

\* s followed by t, cut at max elements
SatCat(s, t, max) == SubSeq(s \o t, 1, Min(Len(s) + Len(t), max))

Count(x, s) == Cardinality({ i \in 1..Len(s) : s[i] = x })

\* the owner callback (redir->callback) is observed, not modelled
Notify(ev) == notes' = SatCat(notes, << ev >>, MaxNotes)

\* ------------------------------------------------------------------------
\* The redirect pump
\* ------------------------------------------------------------------------
\* read( fd_in, buffer, sizeof buffer ) returning Len(data) bytes
BufferAfterRead(buf, data) ==
    [ i \in 1..BufCap |-> IF i <= Len(data) THEN data[i] ELSE buf[i] ]

\* memmove( buffer, &buffer[num_out], remaining )
BufferAfterMemmove(buf, num_out, remaining) ==
    [ i \in 1..BufCap |-> IF i <= remaining THEN buf[i + num_out] ELSE buf[i] ]

\* AsyncIO_Redirect, successful: both handles made, read interest armed
PumpInit ==
    /\ state = REDIR_STATE_WAITING_FOR_DATA
    /\ buffer = [ i \in 1..BufCap |-> 0 ]
    /\ num_in_buffer = 0
    /\ in_notifyOnRead = TRUE
    /\ out_notifyOnWrite = FALSE
    /\ redirLive = TRUE
    /\ fdInOpen = TRUE
    /\ fdOutOpen = TRUE
    /\ pumpPc = "idle"
    /\ eofPending = FALSE
    /\ outCap \in 1..BufCap
    /\ inEof = FALSE
    /\ chunkIn = << >>
    /\ chunkOut = << >>
    /\ lastWrite = [ offered |-> 0, unsent |-> 0, call |-> 0 ]
    /\ chunkWritten = 0
    /\ notes = << >>

\* a delivery of kAIO_DATA_AVAILABLE with no read interest armed
Redirect_DataAvailableUnarmed(eof) ==
    /\ redirLive /\ pumpPc = "idle" /\ ~eofPending
    /\ in_notifyOnRead' = FALSE
    /\ notes' = << kAIO_REDIRECT_DATA_READY >>
    /\ pumpPc' = "pumping"
    /\ eofPending' = eof
    /\ UNCHANGED << state, buffer, num_in_buffer, out_notifyOnWrite, redirLive,
                    fdInOpen, fdOutOpen, outCap, inEof, chunkIn, chunkOut, lastWrite,
                    chunkWritten >>

\* redirect_AsyncIOEvent, kAIO_DATA_AVAILABLE: the dispatcher has cleared the
\* read-armed flag of the input handle; the owner is told "data ready" and the
\* pump loop is entered.  eof is the EV_EOF flag of the event.
Redirect_DataAvailable(eof) ==
    /\ redirLive /\ pumpPc = "idle" /\ ~eofPending
    /\ in_notifyOnRead
    /\ in_notifyOnRead' = FALSE
    /\ notes' = << kAIO_REDIRECT_DATA_READY >>
    /\ pumpPc' = "pumping"
    /\ eofPending' = eof
    /\ UNCHANGED << state, buffer, num_in_buffer, out_notifyOnWrite, redirLive,
                    fdInOpen, fdOutOpen, outCap, inEof, chunkIn, chunkOut, lastWrite,
                    chunkWritten >>

\* a delivery of kAIO_READY_FOR_WRITE that leaves the write interest armed
Redirect_ReadyForWriteArmed ==
    /\ redirLive /\ pumpPc = "idle" /\ ~eofPending
    /\ out_notifyOnWrite
    /\ out_notifyOnWrite' = TRUE
    /\ notes' = << >>
    /\ pumpPc' = "pumping"
    /\ UNCHANGED << state, buffer, num_in_buffer, in_notifyOnRead, redirLive,
                    fdInOpen, fdOutOpen, eofPending, outCap, inEof, chunkIn, chunkOut,
                    lastWrite, chunkWritten >>

\* redirect_AsyncIOEvent, kAIO_READY_FOR_WRITE
Redirect_ReadyForWrite ==
    /\ redirLive /\ pumpPc = "idle" /\ ~eofPending
    /\ out_notifyOnWrite
    /\ out_notifyOnWrite' = FALSE
    /\ notes' = << >>
    /\ pumpPc' = "pumping"
    /\ UNCHANGED << state, buffer, num_in_buffer, in_notifyOnRead, redirLive,
                    fdInOpen, fdOutOpen, eofPending, outCap, inEof, chunkIn, chunkOut,
                    lastWrite, chunkWritten >>

\* redirect_AsyncIOEvent, kAIO_CONNECTION_CLOSED: delivered by the kqueue
\* dispatcher right after the kAIO_DATA_AVAILABLE callback has returned
Redirect_ConnectionClosed ==
    /\ redirLive /\ pumpPc = "idle" /\ eofPending
    /\ eofPending' = FALSE
    /\ Notify(kAIO_REDIRECT_INPUT_CLOSED_EVENT)
    /\ UNCHANGED << state, buffer, num_in_buffer, in_notifyOnRead,
                    out_notifyOnWrite, redirLive, fdInOpen, fdOutOpen, pumpPc,
                    outCap, inEof, chunkIn, chunkOut, lastWrite, chunkWritten >>

\* a pump that takes a zero-length read for "nothing to read yet"
Pump_ZeroReadRearms ==
    /\ in_notifyOnRead' = TRUE
    /\ pumpPc' = "idle"
    /\ UNCHANGED << state, buffer, num_in_buffer, chunkIn, chunkOut,
                    chunkWritten, notes >>

\* "else if ( num_in == 0 )": done = true, and nothing else
Pump_ZeroRead ==
    /\ pumpPc' = "idle"
    /\ UNCHANGED << state, buffer, num_in_buffer, in_notifyOnRead,
                    chunkIn, chunkOut, chunkWritten, notes >>

\* One iteration of the loop of redirect_Pump in REDIR_STATE_WAITING_FOR_DATA.
\* res is what read() did: "ok" (data returned), "zero", "wouldblock", "error".
Pump_Waiting(res, data) ==
    /\ redirLive /\ pumpPc = "pumping"
    /\ state = REDIR_STATE_WAITING_FOR_DATA
    /\ CASE res = "wouldblock" ->
              \* AsyncIO_NotifyOnReadability( anio_in ); done = true
              /\ in_notifyOnRead' = TRUE
              /\ pumpPc' = "idle"
              /\ UNCHANGED << state, buffer, num_in_buffer, chunkIn, chunkOut,
                              chunkWritten, notes >>
         [] res = "error" ->
              \* the owner is told; done stays false
              /\ Notify(kAIO_REDIRECT_INPUT_ERROR_EVENT)
              /\ UNCHANGED << state, buffer, num_in_buffer, in_notifyOnRead,
                              pumpPc, chunkIn, chunkOut, chunkWritten >>
         [] res = "zero" -> Pump_ZeroRead
         [] res = "ok" ->
              /\ buffer' = BufferAfterRead(buffer, data)
              /\ num_in_buffer' = Len(data)
              /\ state' = REDIR_STATE_SENDING
              /\ chunkIn' = data
              /\ chunkOut' = << >>
              /\ chunkWritten' = 0
              /\ UNCHANGED << in_notifyOnRead, pumpPc, notes >>
    /\ UNCHANGED << out_notifyOnWrite, redirLive, fdInOpen, fdOutOpen,
                    eofPending, outCap, inEof, lastWrite >>

\* the number of bytes a successful write of n bytes accepts
WriteAccepts(n) == Min(outCap, n)

\* a pump that stops on a write that would block without asking to be told
\* when the output can be written
Pump_SendingUnarmed(res) ==
    /\ redirLive /\ pumpPc = "pumping"
    /\ state = REDIR_STATE_SENDING
    /\ lastWrite' = [ offered |-> num_in_buffer,
                      unsent  |-> Len(chunkIn) - Len(chunkOut),
                      call    |-> 1 - lastWrite.call ]
    /\ CASE res = "wouldblock" ->
              /\ out_notifyOnWrite' = FALSE
              /\ pumpPc' = "idle"
              /\ UNCHANGED << state, buffer, num_in_buffer, chunkOut,
                              chunkWritten, notes >>
         [] res = "error" ->
              \* the owner is told; done stays false
              /\ Notify(kAIO_REDIRECT_OUTPUT_ERROR_EVENT)
              /\ UNCHANGED << state, buffer, num_in_buffer, out_notifyOnWrite,
                              pumpPc, chunkOut, chunkWritten >>
         [] res = "ok" ->
              LET num_out == WriteAccepts(num_in_buffer)
                  accepted == SubSeq(buffer, 1, num_out)
              IN  /\ chunkOut' = SatCat(chunkOut, accepted, MaxOut)
                  /\ IF num_out < num_in_buffer
                     THEN \* the remainder is moved to the front; neither
                          \* num_in_buffer nor the state is changed
                          /\ buffer' = BufferAfterMemmove(buffer, num_out,
                                                num_in_buffer - num_out)
                          /\ UNCHANGED << state, num_in_buffer, chunkWritten,
                                          notes >>
                     ELSE /\ Notify(kAIO_REDIRECT_DATA_WRITTEN)
                          /\ chunkWritten' = Min(chunkWritten + 1, 2)
                          /\ state' = REDIR_STATE_WAITING_FOR_DATA
                          /\ UNCHANGED << buffer, num_in_buffer >>
                  /\ UNCHANGED << out_notifyOnWrite, pumpPc >>
    /\ UNCHANGED << in_notifyOnRead, redirLive, fdInOpen, fdOutOpen,
                    eofPending, outCap, inEof, chunkIn >>

\* One iteration of the loop of redirect_Pump in REDIR_STATE_SENDING.
\* res is what write() did: "ok" (some bytes accepted), "wouldblock", "error".
Pump_Sending(res) ==
    /\ redirLive /\ pumpPc = "pumping"
    /\ state = REDIR_STATE_SENDING
    /\ lastWrite' = [ offered |-> num_in_buffer,
                      unsent  |-> Len(chunkIn) - Len(chunkOut),
                      call    |-> 1 - lastWrite.call ]
    /\ CASE res = "wouldblock" ->
              \* AsyncIO_NotifyOnWritability( anio_out ); done = true
              /\ out_notifyOnWrite' = TRUE
              /\ pumpPc' = "idle"
              /\ UNCHANGED << state, buffer, num_in_buffer, chunkOut,
                              chunkWritten, notes >>
         [] res = "error" ->
              \* the owner is told; done stays false
              /\ Notify(kAIO_REDIRECT_OUTPUT_ERROR_EVENT)
              /\ UNCHANGED << state, buffer, num_in_buffer, out_notifyOnWrite,
                              pumpPc, chunkOut, chunkWritten >>
         [] res = "ok" ->
              LET num_out == WriteAccepts(num_in_buffer)
                  accepted == SubSeq(buffer, 1, num_out)
              IN  /\ chunkOut' = SatCat(chunkOut, accepted, MaxOut)
                  /\ IF num_out < num_in_buffer
                     THEN \* the remainder is moved to the front; neither
                          \* num_in_buffer nor the state is changed
                          /\ buffer' = BufferAfterMemmove(buffer, num_out,
                                                num_in_buffer - num_out)
                          /\ UNCHANGED << state, num_in_buffer, chunkWritten,
                                          notes >>
                     ELSE /\ Notify(kAIO_REDIRECT_DATA_WRITTEN)
                          /\ chunkWritten' = Min(chunkWritten + 1, 2)
                          /\ state' = REDIR_STATE_WAITING_FOR_DATA
                          /\ UNCHANGED << buffer, num_in_buffer >>
                  /\ UNCHANGED << out_notifyOnWrite, pumpPc >>
    /\ UNCHANGED << in_notifyOnRead, redirLive, fdInOpen, fdOutOpen,
                    eofPending, outCap, inEof, chunkIn >>

\* a release that closes the output whenever it closes the input
ReleaseRedirectBoth(closeIn, closeOut) ==
    /\ redirLive /\ pumpPc = "idle" /\ ~eofPending
    /\ redirLive' = FALSE
    /\ in_notifyOnRead' = FALSE
    /\ out_notifyOnWrite' = FALSE
    /\ fdInOpen' = (fdInOpen /\ ~closeIn)
    /\ fdOutOpen' = (fdOutOpen /\ ~closeIn)
    /\ UNCHANGED << state, buffer, num_in_buffer, pumpPc, eofPending, outCap, inEof,
                    chunkIn, chunkOut, lastWrite, chunkWritten, notes >>

\* AsyncIO_ReleaseRedirect, called by the owner while no callback runs
ReleaseRedirect(closeIn, closeOut) ==
    /\ redirLive /\ pumpPc = "idle" /\ ~eofPending
    /\ redirLive' = FALSE
    /\ in_notifyOnRead' = FALSE
    /\ out_notifyOnWrite' = FALSE
    /\ fdInOpen' = (fdInOpen /\ ~closeIn)
    /\ fdOutOpen' = (fdOutOpen /\ ~closeOut)
    /\ UNCHANGED << state, buffer, num_in_buffer, pumpPc, eofPending, outCap, inEof,
                    chunkIn, chunkOut, lastWrite, chunkWritten, notes >>

\* ------------------------------------------------------------------------
\* The reactor: bounds and program constants
\* ------------------------------------------------------------------------
\* handle records that can ever be allocated
NumHandles == 2
\* descriptors the caller can supply
NumFds == 1
\* capacity of ctx->kv (kMaxAsyncIOEvents, 16 in the source), scaled down
MaxBatch == 2
\* the millisecond clock runs from 0 to MaxTime, and no timer is set to
\* fire later
MaxTime == 2
\* EnableTimer is called with 0..MaxMs milliseconds
MaxMs == 1

NULL == 0
kInvalidFD == -1
kAsyncIOFlags_UseRunLoop == 1
\* the largest value of the millisecond counter: 0xFFFFFFFF in the source,
\* narrowed here to keep the clock small
MaxCounter == 15

\* the clock is followed until it shows MaxTime: the milliseconds left till
\* then (the counter wraps from MaxCounter to 0)
TicksLeft(t) == (MaxTime - t) % (MaxCounter + 1)

kAIO_TYPE_LISTENER == 1
kAIO_TYPE_CONNECTION == 2
kAIO_TYPE_TIMER == 3
kAIO_TYPE_PROC == 4
kAIO_TYPE_SIGNAL == 5

kAIO_NEW_CONNECTION == 1
kAIO_CONNECTION_CLOSED == 2
kAIO_READY_FOR_WRITE == 3
kAIO_DATA_AVAILABLE == 4
kAIO_TIMER_FIRED == 5
kAIO_PROCESS_EXITED == 6
kAIO_SIGNAL_DELIVERED == 7

Handles == 1..NumHandles
FDs == 1..NumFds
\* the one process id and the one signal number the caller watches
PIDs == { 1 }
SIGs == { 1 }

VARIABLES
    backend,            \* "kqueue" (ASYNC_NETIO_USE_KQUEUE) or "select"
                        \* (ASYNC_NETIO_USE_SELECT): fixed at build time
    anio,               \* the struct OpaqueAsyncIO records, by handle; st is
                        \* "unused", "live" or "freed" (the record of a freed
                        \* handle keeps what it held when it was freed)
    anioInProgress,     \* the in-progress marker
    anioKQ,             \* the registrations the kernel queue holds
    anioReadSet,        \* select: read-interest descriptor set
    anioWriteSet,       \* select: write-interest descriptor set
    userdata,           \* select: lwip's per-socket user data, by descriptor
    enabled_timers,     \* select: head of the armed-timer list
    aio_next_enabled_timer, \* select: the timer the pending wait was bounded by
    now,                \* MillisecondCounter()
    pc,                 \* where the dispatcher is: "idle", "run_wait",
                        \* "waited", "dispatch", "callback", "crashed", "hung"
    entry,              \* the entry point that is active: "Run", "Process"
    keepRunning,        \* the argument of AsyncIO_Run
    got_first_event,    \* kqueue AsyncIO_Run: got_first_event
    ctx,                \* the fetched events: kv (kqueue) or readfds and
                        \* writefds (select), and num
    scan,               \* the loop position: index into kv, or descriptor
                        \* and half ("read", "write") of the select scan
    cb,                 \* the callback that is running: handle, event, the
                        \* place the dispatcher resumes at; and, noted when
                        \* it was called: req for the event's direction,
                        \* whether the handle was live, whether it released
                        \* itself in the callback that ran just before
    result,             \* what the latest entry point returned
    runLoop,            \* the run loop bridge (ASYNC_NETIO_USE_RUN_LOOP):
                        \* use: anioDescriptorRef != NULL; armed: the host's
                        \* read callback is enabled; inCallBack:
                        \* AsyncIO_CFFileDescriptorCallBack is running
    \* ---- observation of the reactor ----
    relBy,              \* per handle: 0, or who released it since the latest
                        \* wait (the handle whose callback did, -1 for the
                        \* caller between the wait and the dispatch)
    uafAcc,             \* handles the dispatcher touched after they were freed
                        \* (OwnerSpec: the objects of the pump used after that)
    lastCall,           \* the call the latest step made: its argument, what
                        \* it returned and the system call that failed in
                        \* it; noted for AsyncIO_DisableTimer, for a
                        \* constructor in which a system call failed and
                        \* for a failed kevent call of AsyncIO_Run, for
                        \* AsyncIO_ReleaseRedirect
                        \* (NoCall for any other step)
    req                 \* per handle and direction: "used" when an event was
                        \* delivered and none requested since, else "fresh";
                        \* tm: "on" when EnableTimer was called on the
                        \* handle after the latest DisableTimer, else "off"

rvars == << backend, anio, anioInProgress, anioKQ, anioReadSet, anioWriteSet,
            userdata, enabled_timers, aio_next_enabled_timer, now, pc, entry,
            keepRunning, got_first_event, ctx, scan, cb, result, runLoop,
            relBy, uafAcc, lastCall, req >>

vars == << pvars, rvars >>

\* ------------------------------------------------------------------------
\* Handle records
\* ------------------------------------------------------------------------
NoHandle ==
    [ st |-> "unused", type |-> 0, fd |-> kInvalidFD, notifyOnRead |-> FALSE,
      notifyOnWrite |-> FALSE, next_fire_time |-> 0, next_timer |-> NULL ]

\* calloc + the constructor's assignments
NewRecord(type, fd) ==
    [ st |-> "live", type |-> type, fd |-> fd, notifyOnRead |-> FALSE,
      notifyOnWrite |-> FALSE, next_fire_time |-> 0, next_timer |-> NULL ]

Live(h) == anio[h].st = "live"

\* the record calloc returns: identities are never reused
FreshHandle(h) ==
    /\ anio[h].st = "unused"
    /\ \A g \in Handles : g < h => anio[g].st # "unused"

\* the caller gives each descriptor to one handle at a time
FdFree(fd) == \A g \in Handles : Live(g) => anio[g].fd # fd

\* user code runs between the entry points and inside callbacks; the handles
\* are made between the entry points, and between a wait and its dispatch
\* the caller does no more than release handles
UserCode == pc \in { "idle", "callback" }
SetUp == pc = "idle"
TearDown == pc \in { "idle", "waited", "callback" }

NoReq == [ rd |-> "fresh", wr |-> "fresh", tm |-> "off" ]

NoCall == [ op |-> "none", arg |-> 0, res |-> 0, err |-> "none" ]
Call(op, arg, res, err) == [ op |-> op, arg |-> arg, res |-> res, err |-> err ]

\* ------------------------------------------------------------------------
\* The kernel event queue
\* ------------------------------------------------------------------------
SameKey(x, filter, ident) == x.filter = filter /\ x.ident = ident

\* kevent( EV_ADD ): one registration per (ident, filter); a new one replaces
KqAdd(regs, r) == { x \in regs : ~SameKey(x, r.filter, r.ident) } \cup { r }

\* kevent( EV_DELETE )
KqDelete(regs, filter, ident) == { x \in regs : ~SameKey(x, filter, ident) }

\* close( fd ) drops the registrations of the descriptor
KqClose(regs, fd) ==
    { x \in regs : ~(x.filter \in { "READ", "WRITE" } /\ x.ident = fd) }

Reg(filter, ident, udata, oneshot) ==
    [ filter |-> filter, ident |-> ident, udata |-> udata, oneshot |-> oneshot ]

\* ------------------------------------------------------------------------
\* The armed-timer list of the select backend
\* ------------------------------------------------------------------------
\* The walk of AsyncIO_DisableTimer from tio to the record whose next_timer is
\* timer: that record, NULL when the end of the list is met first, -1 when the
\* walk never ends (a list that loops without holding timer)
RECURSIVE FindPrev(_, _, _, _)
\* a walk that finds no record before timer
FindPrevNone(a, tio, timer, fuel) == NULL

FindPrev(a, tio, timer, fuel) ==
    IF a[tio].next_timer = timer THEN tio
    ELSE IF a[tio].next_timer = NULL THEN NULL
    ELSE IF fuel = 0 THEN -1
    ELSE FindPrev(a, a[tio].next_timer, timer, fuel - 1)

\* a DisableTimer that leaves the list as it is
DisableTimerListKept(a, head, timer) == [ a |-> a, head |-> head, res |-> 0 ]

\* AsyncIO_DisableTimer, select part: the records, the list head and the
\* result (0, -1 for a failed require, -2 for a scan that never ends)
DisableTimerList(a, head, timer) ==
    IF head = NULL
    THEN [ a |-> a, head |-> head, res |-> -1 ]
    ELSE IF head = timer
    THEN [ a |-> [ a EXCEPT ![timer].next_timer = NULL ],
           head |-> a[timer].next_timer, res |-> 0 ]
    ELSE LET prev == FindPrev(a, head, timer, NumHandles)
         IN  IF prev = NULL THEN [ a |-> a, head |-> head, res |-> -1 ]
             ELSE IF prev = -1 THEN [ a |-> a, head |-> head, res |-> -2 ]
             ELSE [ a |-> [ a EXCEPT ![prev].next_timer = a[timer].next_timer,
                                     ![timer].next_timer = NULL ],
                    head |-> head, res |-> 0 ]

\* the records the scan of AsyncIO_GetNextTimerFireTime visits, in order; the
\* scan is cut after NumHandles + 1 records
RECURSIVE ListFrom(_, _, _)
ListFrom(a, tio, fuel) ==
    IF tio = NULL \/ fuel = 0 THEN << >>
    ELSE << tio >> \o ListFrom(a, a[tio].next_timer, fuel - 1)

\* the list loops: the scan never reaches NULL
ListLoops(a, head) == Len(ListFrom(a, head, NumHandles + 1)) > NumHandles

\* AsyncIO_GetNextTimerFireTime: the first record with the smallest fire time
\* that is below 0xFFFFFFFF (NULL when there is none), and the time left
NextTimer(a, head) ==
    LET l == ListFrom(a, head, NumHandles + 1)
        c == { i \in 1..Len(l) :
                 /\ a[l[i]].next_fire_time < MaxCounter
                 /\ \A j \in 1..Len(l) :
                       \/ a[l[i]].next_fire_time < a[l[j]].next_fire_time
                       \/ (a[l[i]].next_fire_time = a[l[j]].next_fire_time /\ i <= j) }
    IN  IF c = { } THEN NULL ELSE l[CHOOSE i \in c : TRUE]

Remaining(a, timer, t) ==
    IF t > a[timer].next_fire_time THEN 0 ELSE a[timer].next_fire_time - t

\* ------------------------------------------------------------------------
\* The calls of the API
\* ------------------------------------------------------------------------
\* ASYNC_NETIO_PRIME_RUN_LOOP(): the host's read callback is enabled when the
\* bridge is in use
Primed(rl) == IF rl.use THEN [ rl EXCEPT !.armed = TRUE ] ELSE rl
PrimeRunLoop == runLoop' = Primed(runLoop)

ApiFrame ==
    UNCHANGED << pvars, backend, now, entry, keepRunning, got_first_event, ctx, scan,
                 cb, result, uafAcc >>

\* What the system calls of a constructor can do: all succeed ("none"), or
\* one fails: calloc, fcntl( F_GETFL ), fcntl( F_SETFL ) with ENOTTY
\* ("enotty") or with another error ("setfl"), kevent( EV_ADD ).
SysOutcomes == { "none", "calloc", "getfl", "enotty", "setfl", "kevent" }

\* "exit:" of a constructor with result still NULL: the record is freed,
\* nothing else was done
ConstructorFails(op, fd, io) ==
    /\ lastCall' = Call(op, fd, NULL, io)
    /\ UNCHANGED << anio, anioKQ, anioReadSet, anioWriteSet, userdata, req >>

\* AsyncIO_NewConnectionListener( fd, ... ): read interest is registered by
\* the constructor; notifyOnRead stays false.  io is what the system calls do:
\* every failure is a require that leads to "exit:"
AsyncIO_NewConnectionListener(h, fd, io) ==
    /\ SetUp /\ FreshHandle(h) /\ FdFree(fd)
    /\ io = "kevent" => backend = "kqueue"
    /\ IF io # "none"
       THEN ConstructorFails("NewConnectionListener", fd, io)
       ELSE /\ anio' = [ anio EXCEPT ![h] = NewRecord(kAIO_TYPE_LISTENER, fd) ]
            /\ IF backend = "kqueue"
               THEN /\ anioKQ' = KqAdd(anioKQ, Reg("READ", fd, h, FALSE))
                    /\ UNCHANGED << anioReadSet, userdata >>
               ELSE /\ userdata' = [ userdata EXCEPT ![fd] = h ]
                    /\ anioReadSet' = anioReadSet \cup { fd }
                    /\ UNCHANGED anioKQ
            /\ req' = [ req EXCEPT ![h] = NoReq ]
            /\ lastCall' = NoCall
            /\ UNCHANGED anioWriteSet
    /\ UNCHANGED << anioInProgress, enabled_timers,
                    aio_next_enabled_timer, pc, relBy >>
    /\ IF io = "none" THEN PrimeRunLoop ELSE UNCHANGED runLoop
    /\ ApiFrame

\* AsyncIO_NewConnection( fd, ... ): no interest is registered.  io is what
\* the system calls do: ENOTTY from fcntl( F_SETFL ) is turned into success
\* ("if ( ( err != 0 ) && ( errno == ENOTTY ) ) { err = 0; }"), every other
\* failure is a require that leads to "exit:"; there is no kevent call
AsyncIO_NewConnection(h, fd, io) ==
    /\ SetUp /\ FreshHandle(h) /\ FdFree(fd)
    /\ io # "kevent"
    /\ IF io \notin { "none", "enotty" }
       THEN ConstructorFails("NewConnection", fd, io)
       ELSE /\ anio' = [ anio EXCEPT ![h] = NewRecord(kAIO_TYPE_CONNECTION, fd) ]
            /\ IF backend = "kqueue"
               THEN UNCHANGED userdata
               ELSE userdata' = [ userdata EXCEPT ![fd] = h ]
            /\ req' = [ req EXCEPT ![h] = NoReq ]
            /\ lastCall' = IF io = "none" THEN NoCall
                           ELSE Call("NewConnection", fd, h, io)
            /\ UNCHANGED << anioKQ, anioReadSet, anioWriteSet >>
    /\ UNCHANGED << anioInProgress, enabled_timers, aio_next_enabled_timer,
                    pc, relBy >>
    /\ UNCHANGED runLoop
    /\ ApiFrame

\* AsyncIO_NewTimer
AsyncIO_NewTimer(h) ==
    /\ SetUp /\ FreshHandle(h)
    /\ anio' = [ anio EXCEPT ![h] = NewRecord(kAIO_TYPE_TIMER, kInvalidFD) ]
    /\ req' = [ req EXCEPT ![h] = NoReq ]
    /\ UNCHANGED << anioInProgress, anioKQ, anioReadSet, anioWriteSet, userdata,
                    enabled_timers, aio_next_enabled_timer, pc, relBy >>
    /\ lastCall' = NoCall
    /\ UNCHANGED runLoop
    /\ ApiFrame

\* AsyncIO_NewProcessMonitor( pid, ... ) and AsyncIO_NewSignalMonitor( sig, ... ):
\* kqueue only; a one-shot registration whose ident is the pid or the signal
AsyncIO_NewMonitor(h, type, filter, ident) ==
    /\ SetUp /\ FreshHandle(h)
    /\ backend = "kqueue"
    /\ anio' = [ anio EXCEPT ![h] = NewRecord(type, kInvalidFD) ]
    /\ anioKQ' = KqAdd(anioKQ, Reg(filter, ident, h, TRUE))
    /\ req' = [ req EXCEPT ![h] = NoReq ]
    /\ UNCHANGED << anioInProgress, anioReadSet, anioWriteSet, userdata,
                    enabled_timers, aio_next_enabled_timer, pc, relBy >>
    /\ lastCall' = NoCall
    /\ PrimeRunLoop
    /\ ApiFrame

AsyncIO_NewProcessMonitor(h, pid) ==
    AsyncIO_NewMonitor(h, kAIO_TYPE_PROC, "PROC", pid)

AsyncIO_NewSignalMonitor(h, sig) ==
    AsyncIO_NewMonitor(h, kAIO_TYPE_SIGNAL, "SIGNAL", sig)

HasDescriptor(h) ==
    Live(h) /\ anio[h].type \in { kAIO_TYPE_LISTENER, kAIO_TYPE_CONNECTION }

\* AsyncIO_NotifyOnReadability, successful
AsyncIO_NotifyOnReadability(h) ==
    /\ UserCode /\ HasDescriptor(h)
    /\ IF backend = "kqueue"
       THEN /\ anioKQ' = KqAdd(anioKQ, Reg("READ", anio[h].fd, h, TRUE))
            /\ UNCHANGED << anioReadSet, userdata >>
       ELSE /\ userdata' = [ userdata EXCEPT ![anio[h].fd] = h ]
            /\ anioReadSet' = anioReadSet \cup { anio[h].fd }
            /\ UNCHANGED anioKQ
    /\ anio' = [ anio EXCEPT ![h].notifyOnRead = TRUE ]
    /\ req' = [ req EXCEPT ![h].rd = "fresh" ]
    /\ UNCHANGED << anioInProgress, anioWriteSet, enabled_timers,
                    aio_next_enabled_timer, pc, relBy >>
    /\ lastCall' = NoCall
    /\ PrimeRunLoop
    /\ ApiFrame

\* AsyncIO_NotifyOnWritability, successful
AsyncIO_NotifyOnWritability(h) ==
    /\ UserCode /\ HasDescriptor(h)
    /\ IF backend = "kqueue"
       THEN /\ anioKQ' = KqAdd(anioKQ, Reg("WRITE", anio[h].fd, h, TRUE))
            /\ UNCHANGED << anioWriteSet, userdata >>
       ELSE /\ userdata' = [ userdata EXCEPT ![anio[h].fd] = h ]
            /\ anioWriteSet' = anioWriteSet \cup { anio[h].fd }
            /\ UNCHANGED anioKQ
    /\ anio' = [ anio EXCEPT ![h].notifyOnWrite = TRUE ]
    /\ req' = [ req EXCEPT ![h].wr = "fresh" ]
    /\ UNCHANGED << anioInProgress, anioReadSet, enabled_timers,
                    aio_next_enabled_timer, pc, relBy >>
    /\ lastCall' = NoCall
    /\ PrimeRunLoop
    /\ ApiFrame

IsTimer(h) == Live(h) /\ anio[h].type = kAIO_TYPE_TIMER

\* AsyncIO_EnableTimer( timer, ms )
AsyncIO_EnableTimer(h, ms) ==
    /\ UserCode /\ IsTimer(h)
    /\ ms <= TicksLeft(now)
    /\ IF backend = "kqueue"
       THEN /\ anioKQ' = KqAdd(anioKQ, Reg("TIMER", h, h, TRUE))
            /\ UNCHANGED << anio, enabled_timers >>
       ELSE /\ anio' = [ anio EXCEPT
                           ![h].next_fire_time = (now + ms) % (MaxCounter + 1),
                           ![h].next_timer = enabled_timers ]
            /\ enabled_timers' = h
            /\ UNCHANGED anioKQ
    /\ req' = [ req EXCEPT ![h].tm = "on" ]
    /\ UNCHANGED << anioInProgress, anioReadSet, anioWriteSet, userdata,
                    aio_next_enabled_timer, pc, relBy >>
    /\ lastCall' = NoCall
    /\ PrimeRunLoop
    /\ ApiFrame

\* AsyncIO_DisableTimer( timer ): what it does to the kernel queue ...
DisableTimerKq(regs, h) == KqDelete(regs, "TIMER", h)

\* ... and to the pending-wait timer of the select backend
DisableTimerNext(next, h) == IF h = next THEN NULL ELSE next

AsyncIO_DisableTimer(h) ==
    /\ UserCode /\ IsTimer(h)
    /\ IF backend = "kqueue"
       THEN /\ anioKQ' = DisableTimerKq(anioKQ, h)
            /\ lastCall' = Call("DisableTimer", h, 0, "none")
            /\ UNCHANGED << anio, enabled_timers, aio_next_enabled_timer, pc >>
       ELSE LET d == DisableTimerList(anio, enabled_timers, h)
            IN  /\ anio' = d.a
                /\ enabled_timers' = d.head
                /\ aio_next_enabled_timer' =
                       DisableTimerNext(aio_next_enabled_timer, h)
                /\ pc' = IF d.res = -2 THEN "hung" ELSE pc
                \* a call that never ends returns nothing
                /\ lastCall' = IF d.res = -2 THEN NoCall
                               ELSE Call("DisableTimer", h, d.res, "none")
                /\ UNCHANGED anioKQ
    /\ req' = [ req EXCEPT ![h].tm = "off" ]
    /\ UNCHANGED << anioInProgress, anioReadSet, anioWriteSet, userdata,
                    relBy >>
    /\ PrimeRunLoop
    /\ ApiFrame

\* AsyncIO_Release: the registrations it removes from the kernel queue
ReleaseKq(regs, h, closeDescriptor) ==
    LET a  == anio[h]
        r1 == IF a.type = kAIO_TYPE_TIMER THEN DisableTimerKq(regs, h) ELSE regs
        r2 == IF a.notifyOnRead THEN KqDelete(r1, "READ", a.fd) ELSE r1
        r3 == IF a.notifyOnWrite THEN KqDelete(r2, "WRITE", a.fd) ELSE r2
    IN  IF closeDescriptor /\ a.fd >= 0 THEN KqClose(r3, a.fd) ELSE r3

\* a Release that leaves the in-progress marker as it is
ReleaseMarkerKept(marker, h) == marker

\* AsyncIO_Release: "make sure any loop that's in progress doesn't muck with
\* this item"
ReleaseMarker(marker, h) == IF marker = h THEN NULL ELSE marker

\* ForgetFD( &anio->fd ) when asked to close, then ForgetMem( &anio )
FreedRecord(a, closeDescriptor) ==
    [ a EXCEPT !.st = "freed",
               !.fd = IF closeDescriptor THEN kInvalidFD ELSE @ ]

\* AsyncIO_Release( anio, closeDescriptor )
AsyncIO_Release(h, closeDescriptor) ==
    /\ TearDown /\ Live(h)
    /\ IF backend = "kqueue"
       THEN /\ anioKQ' = ReleaseKq(anioKQ, h, closeDescriptor)
            /\ anio' = [ anio EXCEPT ![h] = FreedRecord(@, closeDescriptor) ]
            /\ UNCHANGED << anioReadSet, anioWriteSet, enabled_timers,
                            aio_next_enabled_timer, pc >>
       ELSE LET d == IF anio[h].type = kAIO_TYPE_TIMER
                     THEN DisableTimerList(anio, enabled_timers, h)
                     ELSE [ a |-> anio, head |-> enabled_timers, res |-> 0 ]
            IN  /\ anio' = IF d.res = -2 THEN d.a
                           ELSE [ d.a EXCEPT ![h] = FreedRecord(@, closeDescriptor) ]
                /\ enabled_timers' = d.head
                /\ aio_next_enabled_timer' =
                       IF anio[h].type = kAIO_TYPE_TIMER
                       THEN DisableTimerNext(aio_next_enabled_timer, h)
                       ELSE aio_next_enabled_timer
                /\ pc' = IF d.res = -2 THEN "hung" ELSE pc
                \* FD_CLR: lwip ignores a descriptor out of range (-1)
                /\ anioReadSet' = anioReadSet \ { anio[h].fd }
                /\ anioWriteSet' = anioWriteSet \ { anio[h].fd }
                /\ UNCHANGED anioKQ
    /\ anioInProgress' = ReleaseMarker(anioInProgress, h)
    /\ relBy' = [ relBy EXCEPT ![h] = IF pc = "callback" THEN cb.h
                                      ELSE IF pc = "waited" THEN -1 ELSE @ ]
    /\ req' = [ req EXCEPT ![h] = NoReq ]
    \* the descriptor's user data is left as it is
    /\ UNCHANGED userdata
    /\ lastCall' = NoCall
    /\ UNCHANGED runLoop
    /\ ApiFrame

\* ------------------------------------------------------------------------
\* Dispatch
\* ------------------------------------------------------------------------
NoCb == [ h |-> NULL, ev |-> 0, resume |-> "none", how |-> "none",
          live |-> TRUE, selfrel |-> FALSE ]
\* tmo and to: the timeout the caller gave to AsyncIO_WaitForEvents and the one
\* select was called with (-1 for NULL)
NoCtx == [ num |-> 0, kv |-> << >>, readfds |-> { }, writefds |-> { },
           tmo |-> -1, to |-> -1 ]
NoScan == [ i |-> 0, half |-> "read" ]
\* AsyncIO_Initialize( 0 ): no bridge
NoRunLoop == [ use |-> FALSE, armed |-> FALSE, inCallBack |-> FALSE ]
NoRel == [ h \in Handles |-> 0 ]

Freed(h) == anio[h].st = "freed"

\* the dispatcher reads or writes the record of h, or calls its callback
Touched(h) == IF Freed(h) THEN uafAcc \cup { h } ELSE uafAcc

ReadEvents == { kAIO_NEW_CONNECTION, kAIO_DATA_AVAILABLE }

\* the variables of the entry point that is active
frame == << entry, keepRunning, got_first_event, ctx, relBy >>

\* the handles and what is registered for them
world == << anio, anioKQ, anioReadSet, anioWriteSet, userdata, enabled_timers,
            aio_next_enabled_timer >>

\* The entry point returns res: its locals are gone.
Returned(res) ==
    /\ pc' = "idle"
    /\ result' = res
    /\ entry' = "Run"
    /\ keepRunning' = FALSE
    /\ got_first_event' = FALSE
    /\ ctx' = NoCtx
    /\ scan' = NoScan
    /\ cb' = NoCb
    /\ relBy' = NoRel
    /\ uafAcc' = { }

\* a dispatcher that calls the callback without setting the marker
InvokeUnmarked(h, ev, resume, at) ==
    /\ pc' = "callback"
    /\ UNCHANGED anioInProgress
    /\ uafAcc' = Touched(h)
    /\ scan' = at
    /\ cb' = [ h |-> h, ev |-> ev, resume |-> resume,
               how |-> IF ev \in ReadEvents THEN req[h].rd
                       ELSE IF ev = kAIO_READY_FOR_WRITE THEN req[h].wr
                       ELSE IF ev = kAIO_TIMER_FIRED THEN req[h].tm
                       ELSE "none",
               live |-> ~Freed(h),
               selfrel |-> (/\ pc = "callback" /\ cb.h = h /\ cb.live
                            /\ relBy[h] = h) ]
    /\ req' = IF ev \in ReadEvents THEN [ req EXCEPT ![h].rd = "used" ]
              ELSE IF ev = kAIO_READY_FOR_WRITE THEN [ req EXCEPT ![h].wr = "used" ]
              ELSE req
    /\ UNCHANGED << frame, result >>

\* anioInProgress = anio; (*(anio->callback))( ev, anio, ... ): the callback
\* of h starts to run with the loop at position at; the dispatcher goes on
\* at resume when it returns
Invoke(h, ev, resume, at) ==
    /\ pc' = "callback"
    /\ anioInProgress' = h
    /\ uafAcc' = Touched(h)
    /\ scan' = at
    /\ cb' = [ h |-> h, ev |-> ev, resume |-> resume,
               how |-> IF ev \in ReadEvents THEN req[h].rd
                       ELSE IF ev = kAIO_READY_FOR_WRITE THEN req[h].wr
                       ELSE IF ev = kAIO_TIMER_FIRED THEN req[h].tm
                       ELSE "none",
               live |-> ~Freed(h),
               selfrel |-> (/\ pc = "callback" /\ cb.h = h /\ cb.live
                            /\ relBy[h] = h) ]
    /\ req' = IF ev \in ReadEvents THEN [ req EXCEPT ![h].rd = "used" ]
              ELSE IF ev = kAIO_READY_FOR_WRITE THEN [ req EXCEPT ![h].wr = "used" ]
              ELSE req
    /\ UNCHANGED << frame, result >>

\* The dispatcher used the freed record of h.  What follows is not defined:
\* the process may stop here, or go on with what the record held.
Crash(h) ==
    /\ Freed(h)
    /\ pc' = "crashed"
    /\ anioInProgress' = h
    /\ uafAcc' = uafAcc \cup { h }
    /\ UNCHANGED << frame, cb, req, scan, result >>

\* the event a wait returns for registration r
Ev(r, eof) ==
    [ filter |-> r.filter, ident |-> r.ident, udata |-> r.udata, eof |-> eof ]

\* EV_EOF is reported on descriptor filters only
EofOf(r) == IF r.filter \in { "READ", "WRITE" } THEN BOOLEAN ELSE { FALSE }

\* the kernel drops a one-shot registration when it returns its event
KqAfterFetch(regs, fetched) == regs \ { r \in fetched : r.oneshot }

\* the batches one kevent call can return into ctx->kv: up to MaxBatch
\* events of distinct registrations
Batches ==
    UNION { { s \in [ 1..n -> anioKQ \X BOOLEAN ] :
                /\ \A i, j \in 1..n : i # j => s[i][1] # s[j][1]
                /\ \A i \in 1..n : s[i][2] \in EofOf(s[i][1]) }
            : n \in 0..MaxBatch }

\* AsyncIO_Run( keepRunning ): entry
RunEnters(keep) ==
    /\ pc = "idle"
    /\ pc' = "run_wait"
    /\ entry' = "Run"
    /\ keepRunning' = keep
    /\ got_first_event' = FALSE
    /\ result' = -1
    /\ lastCall' = NoCall
    /\ UNCHANGED << pvars, backend, world, anioInProgress, now, ctx, scan, cb,
                    relBy, uafAcc, req >>

AsyncIO_Run(keep) == RunEnters(keep) /\ UNCHANGED runLoop

\* AsyncIO_CFFileDescriptorCallBack up to its call of AsyncIO_Run( 0 ): the
\* host calls it when its read callback is enabled and the kernel queue has
\* an event; the host's callback is one-shot
AsyncIO_CFFileDescriptorCallBack ==
    /\ runLoop.use /\ runLoop.armed /\ ~runLoop.inCallBack
    /\ anioKQ # { }
    /\ runLoop' = [ runLoop EXCEPT !.armed = FALSE, !.inCallBack = TRUE ]
    /\ RunEnters(FALSE)

\* AsyncIO_CFFileDescriptorCallBack after AsyncIO_Run has returned err:
\* "require( err == 0, exit ); CFFileDescriptorEnableCallBacks( ... )"
BridgeReturns(rl, err) ==
    IF rl.inCallBack
    THEN [ rl EXCEPT !.inCallBack = FALSE, !.armed = (@ \/ err = 0) ]
    ELSE rl

\* an AsyncIO_Run that always returns 0
RunExitOk(res) ==
    /\ anioInProgress' = NULL
    /\ Returned(0)

\* "exit:" of AsyncIO_Run
RunExit(res) ==
    /\ anioInProgress' = NULL
    /\ Returned(res)

\* ---------------- kqueue ----------------

\* the errors a wait can fail with: interrupted by a signal, or anything else
WaitErrors == { "EINTR", "EBADF" }

\* a loop that takes every failed wait as fatal
InterruptIgnoredNever(errno, dbg) == FALSE

\* "( num != 1 ) && ( errno == EINTR ) && ( debug_running_in_debugger() )":
\* the failed kevent call is ignored and the loop goes on ("continue")
InterruptIgnored(errno, dbg) == errno = "EINTR" /\ dbg

\* AsyncIO_Run, kqueue: one kevent call for one event.  It returns an event,
\* or nothing (only when polling: single pass, after the first event), or
\* fails with errno, debug_running_in_debugger() being dbg.
Kq_Run_Wait ==
    /\ pc = "run_wait" /\ backend = "kqueue"
    /\ \/ \E r \in anioKQ : \E eof \in EofOf(r) :
             /\ ctx' = [ NoCtx EXCEPT !.num = 1, !.kv = << Ev(r, eof) >> ]
             /\ anioKQ' = KqAfterFetch(anioKQ, { r })
             /\ got_first_event' = TRUE
             /\ scan' = [ NoScan EXCEPT !.i = 1 ]
             /\ pc' = "dispatch"
             /\ relBy' = NoRel
             /\ uafAcc' = { }
             /\ lastCall' = NoCall
             /\ UNCHANGED << anioInProgress, result, entry, keepRunning, cb >>
       \/ /\ ~keepRunning /\ got_first_event
          /\ RunExit(0)
          /\ lastCall' = NoCall
          /\ UNCHANGED anioKQ
       \/ \E errno \in WaitErrors, dbg \in BOOLEAN :
             /\ lastCall' = Call("kevent", IF dbg THEN 1 ELSE 0, -1, errno)
             /\ IF InterruptIgnored(errno, dbg)
                THEN UNCHANGED << frame, anioInProgress, pc, scan, cb, result,
                                  uafAcc >>
                ELSE RunExit(result)
             /\ UNCHANGED anioKQ
    \* a return is a return to the bridge when the bridge made the call
    /\ runLoop' = IF pc' = "idle" THEN BridgeReturns(runLoop, result')
                  ELSE runLoop
    /\ UNCHANGED << pvars, backend, anio, anioReadSet, anioWriteSet, userdata,
                    enabled_timers, aio_next_enabled_timer, now, req >>

\* AsyncIO_WaitForEvents, kqueue: one kevent call for up to MaxBatch events;
\* an empty batch needs a timeout; a failed call leaves num = -1
Kq_WaitForEvents(hasTimeout) ==
    /\ pc = "idle" /\ backend = "kqueue"
    /\ \/ \E s \in Batches :
             /\ Len(s) > 0 \/ hasTimeout
             /\ ctx' = [ NoCtx EXCEPT !.num = Len(s),
                            !.kv = [ i \in 1..Len(s) |-> Ev(s[i][1], s[i][2]) ] ]
             /\ anioKQ' = KqAfterFetch(anioKQ, { s[i][1] : i \in 1..Len(s) })
       \/ /\ ctx' = [ NoCtx EXCEPT !.num = -1 ]
          /\ UNCHANGED anioKQ
    /\ entry' = "Process"
    /\ result' = 0
    /\ pc' = "waited"
    /\ relBy' = NoRel
    /\ uafAcc' = { }
    /\ lastCall' = NoCall
    /\ UNCHANGED << pvars, backend, runLoop, anio, anioInProgress, anioReadSet, anioWriteSet,
                    userdata, enabled_timers, aio_next_enabled_timer, now,
                    keepRunning, got_first_event, scan, cb, req >>

\* AsyncIO_ProcessEvents, kqueue: entry; with no event the loop is skipped
Kq_ProcessEvents ==
    /\ pc = "waited" /\ backend = "kqueue"
    /\ IF ctx.num >= 1
       THEN /\ pc' = "dispatch"
            /\ scan' = [ NoScan EXCEPT !.i = 1 ]
            /\ UNCHANGED << frame, result, cb, uafAcc >>
       ELSE Returned(0)
    /\ lastCall' = NoCall
    /\ UNCHANGED << pvars, backend, runLoop, world, anioInProgress, now, req >>

\* the end of one iteration of the kqueue loops, the marker being left at
\* marker: AsyncIO_Run waits again, AsyncIO_ProcessEvents takes the next
\* event of ctx->kv or returns 0
Kq_NextEvent(marker) ==
    /\ anioInProgress' = marker
    /\ IF entry = "Run"
       THEN /\ pc' = "run_wait"
            /\ cb' = NoCb
            /\ UNCHANGED << frame, scan, result, uafAcc >>
       ELSE IF scan.i + 1 <= ctx.num
       THEN /\ pc' = "dispatch"
            /\ cb' = NoCb
            /\ scan' = [ scan EXCEPT !.i = @ + 1 ]
            /\ UNCHANGED << frame, result, uafAcc >>
       ELSE Returned(0)
    /\ UNCHANGED req

\* a dispatcher that tells no EV_EOF to the handle
Kq_AfterSwitchNoEof(kv, marker) == Kq_NextEvent(NULL)

\* after the switch on kv.filter: an EV_EOF on a read event is told to the
\* handle as kAIO_CONNECTION_CLOSED unless the marker no longer names it
Kq_AfterSwitch(kv, marker) ==
    IF kv.eof /\ kv.filter = "READ"
    THEN IF marker = kv.udata
         THEN \/ Invoke(kv.udata, kAIO_CONNECTION_CLOSED, "eof", scan)
              \/ Crash(kv.udata)
         ELSE \* require_continue_quiet: the marker is left as it is
              Kq_NextEvent(marker)
    ELSE Kq_NextEvent(NULL)

EventOfFilter(filter, type) ==
    CASE filter = "READ" /\ type = kAIO_TYPE_LISTENER -> kAIO_NEW_CONNECTION
      [] filter = "READ" /\ type = kAIO_TYPE_CONNECTION -> kAIO_DATA_AVAILABLE
      [] filter = "WRITE" -> kAIO_READY_FOR_WRITE
      [] filter = "TIMER" -> kAIO_TIMER_FIRED
      [] filter = "PROC" -> kAIO_PROCESS_EXITED
      [] filter = "SIGNAL" -> kAIO_SIGNAL_DELIVERED
      [] OTHER -> 0

\* the armed flag the dispatcher clears before the callback
FlagsCleared(a, filter) ==
    IF filter = "READ" /\ a.type = kAIO_TYPE_CONNECTION
    THEN [ a EXCEPT !.notifyOnRead = FALSE ]
    ELSE IF filter = "WRITE" THEN [ a EXCEPT !.notifyOnWrite = FALSE ]
    ELSE a

\* The body of the kqueue loops up to the callback, for the event at scan.i:
\* the marker is set, the armed flag cleared, the callback called.
Kq_Dispatch ==
    /\ pc = "dispatch" /\ backend = "kqueue"
    /\ LET kv == ctx.kv[scan.i]
           h  == kv.udata
           ev == EventOfFilter(kv.filter, anio[h].type)
       IN  \/ /\ ev # 0
              /\ anio' = [ anio EXCEPT ![h] = FlagsCleared(@, kv.filter) ]
              /\ Invoke(h, ev, "main", scan)
           \/ /\ ev = 0
              /\ Kq_AfterSwitch(kv, h)
              /\ UNCHANGED anio
           \/ /\ Crash(h)
              /\ UNCHANGED anio
    /\ lastCall' = NoCall
    /\ UNCHANGED << pvars, backend, runLoop, anioKQ, anioReadSet, anioWriteSet, userdata,
                    enabled_timers, aio_next_enabled_timer, now >>

\* a kqueue loop that clears the read-armed flag after the callback
Kq_CallbackReturnClears ==
    /\ pc = "callback" /\ backend = "kqueue"
    /\ IF cb.resume = "main"
       THEN Kq_AfterSwitch(ctx.kv[scan.i], anioInProgress)
       ELSE Kq_NextEvent(NULL)
    /\ lastCall' = NoCall
    /\ anio' = [ anio EXCEPT ![cb.h].notifyOnRead = FALSE ]
    /\ UNCHANGED << pvars, backend, runLoop, anioKQ, anioReadSet, anioWriteSet,
                    userdata, enabled_timers, aio_next_enabled_timer, now >>

\* the callback returns to the kqueue loop
Kq_CallbackReturn ==
    /\ pc = "callback" /\ backend = "kqueue"
    /\ IF cb.resume = "main"
       THEN Kq_AfterSwitch(ctx.kv[scan.i], anioInProgress)
       ELSE Kq_NextEvent(NULL)
    /\ lastCall' = NoCall
    /\ UNCHANGED << pvars, backend, runLoop, world, now >>

\* ---------------- select ----------------

SetMax(S) == IF S = { } THEN -1 ELSE CHOOSE x \in S : \A y \in S : y <= x
SetMin(S) == CHOOSE x \in S : \A y \in S : x <= y

\* what select can report for the copied interest sets: some descriptors ready
ReadySets(rs, ws) ==
    { p \in (SUBSET rs) \X (SUBSET ws) : p[1] \cup p[2] # { } }

\* The timeout select is called with, -1 standing for NULL (wait for ever).
\* AsyncIO_Run: the time left to the next timer, NULL without one.
\* AsyncIO_WaitForEvents( tmo ): the smaller of that and the caller's tmo; "to"
\* is not assigned without a timer, and the call then gets whatever it holds.
WaitTimeouts(isRun, timer, tmo) ==
    IF timer # NULL
    THEN LET rem == Remaining(anio, timer, now)
         IN  IF ~isRun /\ tmo # -1 /\ rem > tmo THEN { tmo } ELSE { rem }
    ELSE IF isRun THEN { -1 } ELSE { -1 } \cup (0..MaxMs)

\* The wait of the select backend, in AsyncIO_Run (isRun) and in
\* AsyncIO_WaitForEvents( tmo ): the interest sets are copied, the next timer
\* is looked up, select is called and reports ready descriptors (num > 0), a
\* timeout (num = 0) or a failure (num < 0).
Sel_Wait(isRun, tmo) ==
    /\ backend = "select"
    /\ IF isRun THEN pc = "run_wait" ELSE pc = "idle"
    /\ IF ListLoops(anio, enabled_timers)
       THEN \* AsyncIO_GetNextTimerFireTime never returns
            /\ pc' = "hung"
            /\ UNCHANGED << frame, anioInProgress, aio_next_enabled_timer, now,
                            scan, cb, result, uafAcc >>
       ELSE LET timer == NextTimer(anio, enabled_timers)
                maxFd == SetMax(anioReadSet \cup anioWriteSet)
            IN  \E to \in WaitTimeouts(isRun, timer, tmo) :
                  IF maxFd < 0 /\ to = -1
                  THEN \* require( ( maxFd >= 0 ) || ( to != NULL ), exit )
                       /\ IF isRun THEN RunExit(result)
                          ELSE Returned(-1) /\ UNCHANGED anioInProgress
                       /\ aio_next_enabled_timer' = timer
                       /\ UNCHANGED now
                  ELSE /\ \/ \E p \in ReadySets(anioReadSet, anioWriteSet) :
                                /\ ctx' = [ NoCtx EXCEPT
                                      !.num = Cardinality(p[1]) + Cardinality(p[2]),
                                      !.readfds = p[1], !.writefds = p[2],
                                      !.tmo = tmo, !.to = to ]
                                /\ UNCHANGED now
                          \/ /\ to # -1 /\ to <= TicksLeft(now)
                             /\ ctx' = [ NoCtx EXCEPT !.num = 0, !.tmo = tmo, !.to = to ]
                             /\ now' = (now + to) % (MaxCounter + 1)
                          \/ /\ ctx' = [ NoCtx EXCEPT !.num = -1, !.tmo = tmo, !.to = to ]
                             /\ UNCHANGED now
                       /\ aio_next_enabled_timer' = timer
                       /\ entry' = IF isRun THEN "Run" ELSE "Process"
                       /\ scan' = NoScan
                       /\ relBy' = NoRel
                       /\ uafAcc' = { }
                       /\ IF isRun THEN pc' = "dispatch" /\ UNCHANGED result
                          ELSE pc' = "waited" /\ result' = 0
                       /\ UNCHANGED << anioInProgress, keepRunning,
                                       got_first_event, cb >>
    /\ lastCall' = NoCall
    /\ UNCHANGED << pvars, backend, runLoop, anio, anioKQ, anioReadSet, anioWriteSet, userdata,
                    enabled_timers, req >>

\* AsyncIO_ProcessEvents, select: entry
Sel_ProcessEvents ==
    /\ pc = "waited" /\ backend = "select"
    /\ pc' = "dispatch"
    /\ lastCall' = NoCall
    /\ UNCHANGED << pvars, backend, runLoop, world, frame, anioInProgress, now, scan, cb,
                    result, uafAcc, req >>

\* the end of one pass of the select loops, the marker being left at marker:
\* AsyncIO_Run waits again when it is to keep running and goes to "exit:"
\* otherwise ("break" after a single pass or a failed select);
\* AsyncIO_ProcessEvents returns 0
Sel_EndOfPass(marker) ==
    /\ IF entry = "Run"
       THEN IF keepRunning /\ ctx.num >= 0
            THEN /\ pc' = "run_wait"
                 /\ cb' = NoCb
                 /\ anioInProgress' = marker
                 /\ UNCHANGED << frame, scan, result, uafAcc >>
            ELSE RunExit(result)
       ELSE Returned(0) /\ anioInProgress' = marker
    /\ UNCHANGED req

\* the scan "for ( i = 0; i <= maxFd; i++ )" tests the read bit and then the
\* write bit of each descriptor: the tests in their order, numbered
Pos(i, half) == 2 * i + (IF half = "write" THEN 1 ELSE 0)
SetBits == { Pos(f, "read") : f \in ctx.readfds }
               \cup { Pos(f, "write") : f \in ctx.writefds }
BitsLeft == { k \in SetBits : k >= Pos(scan.i, scan.half) }
ScanAt(k) == [ i |-> k \div 2, half |-> IF k % 2 = 1 THEN "write" ELSE "read" ]
ScanAfter(s) == ScanAt(Pos(s.i, s.half) + 1)

\* the interest bit the dispatcher clears before the callback
\* ("clear it before call back, because they may request it again DURING
\* the callback")
FdClr(set, i) == set \ { i }

\* the timer callback after a timeout of select
Sel_Timeout ==
    IF aio_next_enabled_timer # NULL
    THEN LET timer == aio_next_enabled_timer
             d == DisableTimerList(anio, enabled_timers, timer)
         IN  /\ aio_next_enabled_timer' = NULL
             /\ \/ /\ d.res # -2
                   /\ anio' = d.a
                   /\ enabled_timers' = d.head
                   /\ Invoke(timer, kAIO_TIMER_FIRED, "timer", scan)
                \/ /\ d.res = -2
                   /\ pc' = "hung"
                   /\ UNCHANGED << anio, enabled_timers, frame, anioInProgress,
                                   uafAcc, cb, req, scan, result >>
                \/ /\ Crash(timer)
                   /\ UNCHANGED << anio, enabled_timers >>
             /\ UNCHANGED << anioReadSet, anioWriteSet >>
    ELSE \* "timer fired, but has been disabled/deleted since priming"
         /\ Sel_EndOfPass(anioInProgress)
         /\ UNCHANGED << anio, anioReadSet, anioWriteSet, enabled_timers,
                         aio_next_enabled_timer >>

\* the next ready descriptor of the scan, up to its callback
Sel_Ready ==
    LET at == ScanAt(SetMin(BitsLeft))
        h  == userdata[at.i]
        filter == IF at.half = "read" THEN "READ" ELSE "WRITE"
    IN  /\ UNCHANGED << enabled_timers, aio_next_enabled_timer >>
        /\ IF at.half = "read"
           THEN /\ anioReadSet' = FdClr(anioReadSet, at.i)
                /\ UNCHANGED anioWriteSet
           ELSE /\ anioWriteSet' = FdClr(anioWriteSet, at.i)
                /\ UNCHANGED anioReadSet
        /\ \/ /\ EventOfFilter(filter, anio[h].type) # 0
              /\ anio' = [ anio EXCEPT ![h] = FlagsCleared(@, filter) ]
              /\ Invoke(h, EventOfFilter(filter, anio[h].type), "scan", at)
           \/ /\ EventOfFilter(filter, anio[h].type) = 0
              /\ anioInProgress' = NULL
              /\ uafAcc' = Touched(h)
              /\ scan' = ScanAfter(at)
              /\ pc' = "dispatch"
              /\ UNCHANGED << anio, frame, cb, req, result >>
           \/ /\ Crash(h)
              /\ UNCHANGED anio

\* One step of the select dispatch: the timer callback after a timeout, or
\* the next ready descriptor of the scan up to its callback.
Sel_Dispatch ==
    /\ pc = "dispatch" /\ backend = "select"
    /\ IF ctx.num = 0 THEN Sel_Timeout
       ELSE IF ctx.num < 0 \/ BitsLeft = { }
       THEN /\ Sel_EndOfPass(anioInProgress)
            /\ UNCHANGED << anio, anioReadSet, anioWriteSet, enabled_timers,
                            aio_next_enabled_timer >>
       ELSE Sel_Ready
    /\ lastCall' = NoCall
    /\ UNCHANGED << pvars, backend, runLoop, anioKQ, userdata, now >>

\* the callback returns to the select loop
Sel_CallbackReturn ==
    /\ pc = "callback" /\ backend = "select"
    /\ IF cb.resume = "timer"
       THEN Sel_EndOfPass(NULL)
       ELSE /\ cb' = NoCb
            /\ anioInProgress' = NULL
            /\ scan' = ScanAfter(scan)
            /\ pc' = "dispatch"
            /\ UNCHANGED << frame, result, uafAcc, req >>
    /\ lastCall' = NoCall
    /\ UNCHANGED << pvars, backend, runLoop, world, now >>

\* ------------------------------------------------------------------------
\* The reactor as a whole
\* ------------------------------------------------------------------------
\* the clock advances while no entry point is active
\* (MillisecondCounter is read by the select backend only)
Tick ==
    /\ pc = "idle" /\ backend = "select" /\ TicksLeft(now) > 0
    /\ now' = (now + 1) % (MaxCounter + 1)
    /\ lastCall' = NoCall
    /\ UNCHANGED << pvars, backend, runLoop, world, frame, anioInProgress, pc, scan, cb,
                    result, uafAcc, req >>

\* AsyncIO_Initialize( flags ), and nothing else yet, the millisecond counter
\* showing t
ReactorStart(t, flags) ==
    /\ backend \in { "kqueue", "select" }
    /\ anio = [ h \in Handles |-> NoHandle ]
    /\ anioInProgress = NULL
    /\ anioKQ = { }
    /\ anioReadSet = { }
    /\ anioWriteSet = { }
    /\ userdata = [ f \in FDs |-> NULL ]
    /\ enabled_timers = NULL
    /\ aio_next_enabled_timer = NULL
    /\ now = t
    /\ pc = "idle"
    /\ entry = "Run"
    /\ keepRunning = FALSE
    /\ got_first_event = FALSE
    /\ ctx = NoCtx
    /\ scan = NoScan
    /\ cb = NoCb
    /\ result = 0
    /\ runLoop = IF flags = kAsyncIOFlags_UseRunLoop /\ backend = "kqueue"
                 THEN [ use |-> TRUE, armed |-> TRUE, inCallBack |-> FALSE ]
                 ELSE NoRunLoop
    /\ relBy = NoRel
    /\ uafAcc = { }
    /\ lastCall = NoCall
    /\ req = [ h \in Handles |-> NoReq ]

ReactorInit == ReactorStart(0, 0)

Construct ==
    \E h \in Handles :
        \/ \E fd \in FDs, io \in SysOutcomes :
              AsyncIO_NewConnectionListener(h, fd, io)
        \/ \E fd \in FDs, io \in SysOutcomes : AsyncIO_NewConnection(h, fd, io)
        \/ AsyncIO_NewTimer(h)
        \/ \E pid \in PIDs : AsyncIO_NewProcessMonitor(h, pid)
        \/ \E sig \in SIGs : AsyncIO_NewSignalMonitor(h, sig)

Arm ==
    \E h \in Handles :
        \/ AsyncIO_NotifyOnReadability(h)
        \/ AsyncIO_NotifyOnWritability(h)
        \/ \E ms \in 0..MaxMs : AsyncIO_EnableTimer(h, ms)
        \/ AsyncIO_DisableTimer(h)

Release == \E h \in Handles, c \in BOOLEAN : AsyncIO_Release(h, c)

Enter ==
    \/ \E keep \in BOOLEAN : AsyncIO_Run(keep)
    \/ \E t \in BOOLEAN : Kq_WaitForEvents(t)
    \/ \E tmo \in -1..MaxMs : Sel_Wait(FALSE, tmo)
    \/ Kq_ProcessEvents
    \/ Sel_ProcessEvents

Dispatch ==
    \/ Kq_Run_Wait
    \/ Kq_Dispatch
    \/ Kq_CallbackReturn
    \/ Sel_Wait(TRUE, -1)
    \/ Sel_Dispatch
    \/ Sel_CallbackReturn

Next ==
    \/ Construct
    \/ Arm
    \/ Release
    \/ Enter
    \/ Dispatch
    \/ Tick

\* ------------------------------------------------------------------------
\* Specifications
\* ------------------------------------------------------------------------
\* the reactor, with no pump
Init == ReactorInit /\ PumpInit /\ outCap = 1
Spec == Init /\ [][Next]_vars

\* the timers of the select backend on their own, the millisecond counter
\* being about to wrap
TimerInit ==
    /\ ReactorStart((0 - MaxTime - 1) % (MaxCounter + 1), 0)
    /\ backend = "select"
    /\ PumpInit /\ outCap = 1

TimerNext ==
    \/ \E h \in Handles : AsyncIO_NewTimer(h)
    \/ \E h \in Handles, ms \in 0..MaxMs : AsyncIO_EnableTimer(h, ms)
    \/ \E h \in Handles : AsyncIO_DisableTimer(h)
    \/ \E h \in Handles : AsyncIO_Release(h, FALSE)
    \/ \E keep \in BOOLEAN : AsyncIO_Run(keep)
    \/ \E tmo \in -1..MaxMs : Sel_Wait(FALSE, tmo)
    \/ Sel_Wait(TRUE, -1)
    \/ Sel_ProcessEvents
    \/ Sel_Dispatch
    \/ Sel_CallbackReturn
    \/ Tick

TimerSpec == TimerInit /\ [][TimerNext]_vars


\* the reactor behind the run loop bridge: AsyncIO_Initialize(
\* kAsyncIOFlags_UseRunLoop ), the host calling the bridge, the application
\* calling the API from its callbacks and from the host's other events
BridgeInit ==
    /\ ReactorStart(0, kAsyncIOFlags_UseRunLoop)
    /\ backend = "kqueue"
    /\ PumpInit /\ outCap = 1

BridgeNext ==
    \/ Construct
    \/ Arm
    \/ Release
    \/ AsyncIO_CFFileDescriptorCallBack
    \/ Kq_Run_Wait
    \/ Kq_Dispatch
    \/ Kq_CallbackReturn

BridgeSpec == BridgeInit /\ [][BridgeNext]_vars

\* ------------------------------------------------------------------------
\* The select loop kept running: one timer and one Connection, the
\* application arming them from outside the loop and from its callbacks.
\* AsyncIO_Run( true ) is straight-line code in a loop: it is entered again
\* when it has returned, every wait that can return does return, and every
\* callback returns.  select itself does not fail here.
\* ------------------------------------------------------------------------
\* timer h is on the armed list
OnTimerList(h) ==
    \E i \in 1..Len(ListFrom(anio, enabled_timers, NumHandles + 1)) :
        ListFrom(anio, enabled_timers, NumHandles + 1)[i] = h

LoopInit ==
    /\ ReactorStart(0, 0)
    /\ backend = "select"
    /\ PumpInit /\ outCap = 1

\* the application: one timer, armed when it is not armed; one Connection
LoopNewTimer ==
    \E h \in Handles :
        /\ \A g \in Handles : ~IsTimer(g)
        /\ AsyncIO_NewTimer(h)
LoopNewConnection ==
    \E h \in Handles, fd \in FDs : AsyncIO_NewConnection(h, fd, "none")
LoopEnableTimer ==
    \E h \in Handles, ms \in 0..MaxMs :
        /\ ~OnTimerList(h)
        /\ AsyncIO_EnableTimer(h, ms)
LoopNotifyOnReadability == \E h \in Handles : AsyncIO_NotifyOnReadability(h)

\* the loop
LoopRun == AsyncIO_Run(TRUE)
LoopWait == Sel_Wait(TRUE, -1) /\ (pc' = "dispatch" => ctx'.num >= 0)

LoopNext ==
    \/ LoopNewTimer
    \/ LoopNewConnection
    \/ LoopEnableTimer
    \/ LoopNotifyOnReadability
    \/ LoopRun
    \/ LoopWait
    \/ Sel_Dispatch
    \/ Sel_CallbackReturn

LoopSpec ==
    /\ LoopInit
    /\ [][LoopNext]_vars
    /\ WF_vars(LoopRun)
    /\ WF_vars(LoopWait)
    /\ WF_vars(Sel_Dispatch)
    /\ WF_vars(Sel_CallbackReturn)

\* ------------------------------------------------------------------------
\* The pump on its own: the reactor's deliveries to the two handles of a
\* redirect, and the iterations of redirect_Pump
\* ------------------------------------------------------------------------
\* the reactor's variables but the note of the latest call
rquiet == << backend, world, frame, anioInProgress, now, pc, scan, cb, result,
             runLoop, uafAcc, req >>

\* a step of the pump that is not noted
PumpFrame == lastCall' = NoCall /\ UNCHANGED rquiet

\* a read or a write of redirect_Pump that fails with EWOULDBLOCK is noted
WouldBlockNote(op, res) ==
    /\ lastCall' = IF res = "wouldblock"
                   THEN Call(op, 0, -1, "EWOULDBLOCK") ELSE NoCall
    /\ UNCHANGED rquiet

PumpRead ==
    \E res \in { "zero", "wouldblock", "error" } :
        Pump_Waiting(res, << >>) /\ WouldBlockNote("read", res)
PumpReadData ==
    /\ \E data \in Chunks : Pump_Waiting("ok", data)
    /\ PumpFrame
PumpWrite == Pump_Sending("ok") /\ PumpFrame
PumpWriteFail ==
    \E res \in { "wouldblock", "error" } :
        Pump_Sending(res) /\ WouldBlockNote("write", res)
PumpDataAvailable ==
    /\ \E eof \in BOOLEAN : Redirect_DataAvailable(eof)
    /\ PumpFrame
PumpReadyForWrite == Redirect_ReadyForWrite /\ PumpFrame
PumpConnectionClosed == Redirect_ConnectionClosed /\ PumpFrame
\* the two flags of AsyncIO_ReleaseRedirect as one number
CloseFlags(closeIn, closeOut) ==
    (IF closeIn THEN 2 ELSE 0) + (IF closeOut THEN 1 ELSE 0)

\* the call is noted with its flags
PumpRelease ==
    /\ \E ci \in BOOLEAN, co \in BOOLEAN :
          /\ ReleaseRedirect(ci, co)
          /\ lastCall' = Call("ReleaseRedirect", CloseFlags(ci, co), 0, "none")
    /\ UNCHANGED rquiet

PumpNext ==
    \/ PumpDataAvailable
    \/ PumpReadyForWrite
    \/ PumpConnectionClosed
    \/ PumpRead
    \/ PumpReadData
    \/ PumpWrite
    \/ PumpWriteFail
    \/ PumpRelease

\* the pump, with an idle reactor
PumpOnlyInit ==
    /\ PumpInit
    /\ ReactorInit
    /\ backend = "kqueue"

PumpSpec == PumpOnlyInit /\ [][PumpNext]_vars

\* The pump while every read and every write succeeds: the output never
\* fails and never blocks, it only accepts at most outCap bytes per call.
\* redirect_Pump is straight-line code in a loop: an iteration that can run
\* does run.
PumpFlowNext ==
    \/ PumpReadData
    \/ PumpWrite

PumpFlowStart == Redirect_DataAvailable(FALSE) /\ PumpFrame

PumpFlowSpec ==
    /\ PumpOnlyInit
    /\ [][PumpFlowStart \/ PumpFlowNext]_vars
    /\ WF_vars(PumpFlowStart)
    /\ WF_vars(PumpReadData)
    /\ WF_vars(PumpWrite)

\* ------------------------------------------------------------------------
\* The pump end to end on the kernel-queue backend: the input holds one chunk
\* and its peer closes at some moment; every write is accepted in full.
\* ------------------------------------------------------------------------
\* the peer of fd_in closes: the descriptor reports end of input from now on
InputCloses ==
    /\ ~inEof
    /\ inEof' = TRUE
    /\ lastCall' = NoCall
    /\ UNCHANGED << state, buffer, num_in_buffer, in_notifyOnRead,
                    out_notifyOnWrite, redirLive, fdInOpen, fdOutOpen, pumpPc,
                    eofPending, outCap, chunkIn, chunkOut, lastWrite,
                    chunkWritten, notes, rquiet >>

\* the chunk has not been read yet
InputHasData == chunkIn = << >>

\* kevent returns the armed one-shot read event of fd_in when the descriptor
\* is readable (data or end of input); EV_EOF is set when the peer has closed
\* by then; the dispatcher calls redirect_AsyncIOEvent( kAIO_DATA_AVAILABLE )
EofDataAvailable ==
    /\ InputHasData \/ inEof
    /\ Redirect_DataAvailable(inEof)
    /\ PumpFrame

\* read( fd_in ) in redirect_Pump: the chunk when it is there, 0 bytes after
\* the peer has closed, EWOULDBLOCK otherwise
EofRead ==
    /\ IF InputHasData
       THEN \E data \in Chunks : Len(data) <= outCap /\ Pump_Waiting("ok", data)
       ELSE IF inEof THEN Pump_Waiting("zero", << >>)
       ELSE Pump_Waiting("wouldblock", << >>)
    /\ WouldBlockNote("read", IF InputHasData \/ inEof THEN "ok" ELSE "wouldblock")

\* write( fd_out ) in redirect_Pump, accepted in full
EofWrite == Pump_Sending("ok") /\ PumpFrame

\* the dispatcher tells kAIO_CONNECTION_CLOSED after the callback of an event
\* that carried EV_EOF
EofConnectionClosed == Redirect_ConnectionClosed /\ PumpFrame

PumpEofNext ==
    \/ InputCloses
    \/ EofDataAvailable
    \/ EofRead
    \/ EofWrite
    \/ EofConnectionClosed

\* the kernel returns a pending event, the code runs on, the peer closes
PumpEofSpec ==
    /\ PumpOnlyInit
    /\ [][PumpEofNext]_vars
    /\ WF_vars(InputCloses)
    /\ WF_vars(EofDataAvailable)
    /\ WF_vars(EofRead)
    /\ WF_vars(EofWrite)
    /\ WF_vars(EofConnectionClosed)


\* ------------------------------------------------------------------------
\* The pump with an owner that may call AsyncIO_ReleaseRedirect from within
\* a notification.  The owner callback is a step of its own here: pumpPc
\* tells which notification is running, and redirect_Pump or
\* redirect_AsyncIOEvent goes on when it returns.  After the release the
\* record and both handles are freed memory; uafAcc collects the ones of
\* "redir", "anio_in", "anio_out" that are used after that.  The
\* observations of the data flow (chunkIn, chunkOut, lastWrite,
\* chunkWritten) are not kept here.
\* ------------------------------------------------------------------------
OwnerEvents == { kAIO_REDIRECT_DATA_READY, kAIO_REDIRECT_DATA_WRITTEN,
                 kAIO_REDIRECT_INPUT_CLOSED_EVENT,
                 kAIO_REDIRECT_INPUT_ERROR_EVENT,
                 kAIO_REDIRECT_OUTPUT_ERROR_EVENT }

\* the position inside (redir->callback)( ev, redir, redir->callback_data )
InOwner(ev) ==
    CASE ev = kAIO_REDIRECT_DATA_READY -> "owner_data_ready"
      [] ev = kAIO_REDIRECT_DATA_WRITTEN -> "owner_data_written"
      [] ev = kAIO_REDIRECT_INPUT_CLOSED_EVENT -> "owner_input_closed"
      [] ev = kAIO_REDIRECT_INPUT_ERROR_EVENT -> "owner_input_error"
      [] ev = kAIO_REDIRECT_OUTPUT_ERROR_EVENT -> "owner_output_error"

OwnerPcs == { InOwner(ev) : ev \in OwnerEvents }

\* the reactor's variables but the note of the latest call and uafAcc
oquiet == << backend, world, frame, anioInProgress, now, pc, scan, cb, result,
             runLoop, req >>

OwnerFrame ==
    /\ lastCall' = NoCall
    /\ UNCHANGED << oquiet, outCap, inEof, chunkIn, chunkOut, lastWrite,
                    chunkWritten >>

\* the code reads or writes objs; they are freed memory after the release
Used(objs) == uafAcc' = IF redirLive THEN uafAcc ELSE uafAcc \cup objs

\* redirect_AsyncIOEvent, kAIO_DATA_AVAILABLE, up to the owner callback
Own_DataAvailable(eof) ==
    /\ redirLive /\ pumpPc = "idle" /\ ~eofPending
    /\ in_notifyOnRead
    /\ in_notifyOnRead' = FALSE
    /\ notes' = << kAIO_REDIRECT_DATA_READY >>
    /\ pumpPc' = InOwner(kAIO_REDIRECT_DATA_READY)
    /\ eofPending' = eof
    /\ UNCHANGED << state, buffer, num_in_buffer, out_notifyOnWrite, redirLive,
                    fdInOpen, fdOutOpen, uafAcc >>
    /\ OwnerFrame

\* redirect_AsyncIOEvent, kAIO_READY_FOR_WRITE: no owner callback
Own_ReadyForWrite ==
    /\ Redirect_ReadyForWrite
    /\ lastCall' = NoCall
    /\ UNCHANGED << oquiet, uafAcc >>

\* redirect_AsyncIOEvent, kAIO_CONNECTION_CLOSED, up to the owner callback
Own_ConnectionClosed ==
    /\ redirLive /\ pumpPc = "idle" /\ eofPending
    /\ eofPending' = FALSE
    /\ Notify(kAIO_REDIRECT_INPUT_CLOSED_EVENT)
    /\ pumpPc' = InOwner(kAIO_REDIRECT_INPUT_CLOSED_EVENT)
    /\ UNCHANGED << state, buffer, num_in_buffer, in_notifyOnRead,
                    out_notifyOnWrite, redirLive, fdInOpen, fdOutOpen, uafAcc >>
    /\ OwnerFrame

\* AsyncIO_ReleaseRedirect, called by the owner from within a notification
Own_Release(closeIn, closeOut) ==
    /\ redirLive /\ pumpPc \in OwnerPcs
    /\ redirLive' = FALSE
    /\ in_notifyOnRead' = FALSE
    /\ out_notifyOnWrite' = FALSE
    /\ fdInOpen' = (fdInOpen /\ ~closeIn)
    /\ fdOutOpen' = (fdOutOpen /\ ~closeOut)
    /\ UNCHANGED << state, buffer, num_in_buffer, pumpPc, eofPending, notes,
                    uafAcc >>
    /\ OwnerFrame

\* The owner callback returns.  After kAIO_REDIRECT_DATA_READY
\* redirect_Pump( redir ) is called; after an error notification the loop of
\* redirect_Pump goes round; after kAIO_REDIRECT_DATA_WRITTEN redir->state
\* is written first; after kAIO_REDIRECT_INPUT_CLOSED_EVENT
\* redirect_AsyncIOEvent returns.
Own_Return ==
    /\ pumpPc \in OwnerPcs
    /\ CASE pumpPc = InOwner(kAIO_REDIRECT_INPUT_CLOSED_EVENT) ->
              /\ pumpPc' = "idle"
              /\ UNCHANGED << state, uafAcc >>
         [] pumpPc = InOwner(kAIO_REDIRECT_DATA_WRITTEN) ->
              /\ state' = REDIR_STATE_WAITING_FOR_DATA
              /\ Used({ "redir" })
              /\ pumpPc' = "pumping"
         [] OTHER ->
              /\ pumpPc' = "pumping"
              /\ UNCHANGED << state, uafAcc >>
    /\ UNCHANGED << buffer, num_in_buffer, in_notifyOnRead, out_notifyOnWrite,
                    redirLive, fdInOpen, fdOutOpen, eofPending, notes >>
    /\ OwnerFrame

\* The loop of redirect_Pump uses the freed record.  What follows is not
\* defined: the process may stop here, or go on with what the record held.
Own_Crash ==
    /\ ~redirLive /\ pumpPc = "pumping"
    /\ pumpPc' = "crashed"
    /\ uafAcc' = uafAcc \cup { "redir" }
    /\ UNCHANGED << state, buffer, num_in_buffer, in_notifyOnRead,
                    out_notifyOnWrite, redirLive, fdInOpen, fdOutOpen,
                    eofPending, notes >>
    /\ OwnerFrame

\* One iteration of the loop of redirect_Pump in REDIR_STATE_WAITING_FOR_DATA;
\* a read from a closed descriptor fails.
Own_Waiting(res, data) ==
    /\ pumpPc = "pumping"
    /\ state = REDIR_STATE_WAITING_FOR_DATA
    /\ fdInOpen \/ res = "error"
    /\ CASE res = "wouldblock" ->
              \* AsyncIO_NotifyOnReadability( redir->anio_in ); done = true
              /\ in_notifyOnRead' = TRUE
              /\ pumpPc' = "idle"
              /\ Used({ "redir", "anio_in" })
              /\ UNCHANGED << state, buffer, num_in_buffer, notes >>
         [] res = "error" ->
              /\ Notify(kAIO_REDIRECT_INPUT_ERROR_EVENT)
              /\ pumpPc' = InOwner(kAIO_REDIRECT_INPUT_ERROR_EVENT)
              /\ Used({ "redir" })
              /\ UNCHANGED << state, buffer, num_in_buffer, in_notifyOnRead >>
         [] res = "zero" ->
              /\ pumpPc' = "idle"
              /\ Used({ "redir" })
              /\ UNCHANGED << state, buffer, num_in_buffer, in_notifyOnRead,
                              notes >>
         [] res = "ok" ->
              /\ buffer' = BufferAfterRead(buffer, data)
              /\ num_in_buffer' = Len(data)
              /\ state' = REDIR_STATE_SENDING
              /\ Used({ "redir" })
              /\ UNCHANGED << in_notifyOnRead, pumpPc, notes >>
    /\ UNCHANGED << out_notifyOnWrite, redirLive, fdInOpen, fdOutOpen,
                    eofPending >>
    /\ OwnerFrame

\* One iteration of the loop of redirect_Pump in REDIR_STATE_SENDING; a
\* write to a closed descriptor fails.
Own_Sending(res) ==
    /\ pumpPc = "pumping"
    /\ state = REDIR_STATE_SENDING
    /\ fdOutOpen \/ res = "error"
    /\ CASE res = "wouldblock" ->
              \* AsyncIO_NotifyOnWritability( redir->anio_out ); done = true
              /\ out_notifyOnWrite' = TRUE
              /\ pumpPc' = "idle"
              /\ Used({ "redir", "anio_out" })
              /\ UNCHANGED << state, buffer, num_in_buffer, notes >>
         [] res = "error" ->
              /\ Notify(kAIO_REDIRECT_OUTPUT_ERROR_EVENT)
              /\ pumpPc' = InOwner(kAIO_REDIRECT_OUTPUT_ERROR_EVENT)
              /\ Used({ "redir" })
              /\ UNCHANGED << state, buffer, num_in_buffer, out_notifyOnWrite >>
         [] res = "ok" ->
              LET num_out == WriteAccepts(num_in_buffer)
              IN  /\ Used({ "redir" })
                  /\ IF num_out < num_in_buffer
                     THEN /\ buffer' = BufferAfterMemmove(buffer, num_out,
                                                num_in_buffer - num_out)
                          /\ UNCHANGED << pumpPc, notes >>
                     ELSE \* redir->state is written when the owner returns
                          /\ Notify(kAIO_REDIRECT_DATA_WRITTEN)
                          /\ pumpPc' = InOwner(kAIO_REDIRECT_DATA_WRITTEN)
                          /\ UNCHANGED buffer
                  /\ UNCHANGED << state, num_in_buffer, out_notifyOnWrite >>
    /\ UNCHANGED << in_notifyOnRead, redirLive, fdInOpen, fdOutOpen,
                    eofPending >>
    /\ OwnerFrame

OwnerDataAvailable == \E eof \in BOOLEAN : Own_DataAvailable(eof)
OwnerRelease == \E ci \in BOOLEAN, co \in BOOLEAN : Own_Release(ci, co)
OwnerRead ==
    \E res \in { "zero", "wouldblock", "error" } : Own_Waiting(res, << >>)
OwnerReadData == \E data \in Chunks : Own_Waiting("ok", data)
OwnerWrite == \E res \in { "ok", "wouldblock", "error" } : Own_Sending(res)

OwnerNext ==
    \/ OwnerDataAvailable
    \/ Own_ReadyForWrite
    \/ Own_ConnectionClosed
    \/ OwnerRelease
    \/ Own_Return
    \/ Own_Crash
    \/ OwnerRead
    \/ OwnerReadData
    \/ OwnerWrite

OwnerSpec == PumpOnlyInit /\ [][OwnerNext]_vars
\* ------------------------------------------------------------------------
\* Properties of the redirect pump
\* ------------------------------------------------------------------------
IsPrefix(s, t) == Len(s) <= Len(t) /\ SubSeq(t, 1, Len(s)) = s

\* C1: under partial writes the bytes the output accepts are the bytes read,
\* once and in order: what was accepted so far is a prefix of the chunk, every
\* write call offers exactly the bytes not yet accepted, and when the pump is
\* back in WaitingForData the whole chunk has been accepted.
C1_PartialWriteExact ==
    /\ IsPrefix(chunkOut, chunkIn)
    /\ lastWrite.offered = lastWrite.unsent
    /\ (state = REDIR_STATE_WAITING_FOR_DATA => chunkOut = chunkIn)

\* C2: when writes never fail and accept at most outCap bytes, a chunk longer
\* than outCap is eventually drained: the pump is back in WaitingForData, the
\* output has accepted exactly the chunk and one "data written" was emitted.
C2_PartialWriteDrains ==
    (state = REDIR_STATE_SENDING /\ outCap < Len(chunkIn))
        ~> ( /\ state = REDIR_STATE_WAITING_FOR_DATA
             /\ chunkOut = chunkIn
             /\ chunkWritten = 1 )

\* C3: once a read has failed with an error other than would-block, the pump
\* invocation has returned with exactly one "input error" told to the owner,
\* the state is WaitingForData and neither descriptor is closed.
C3_InputErrorHalts ==
    (redirLive /\ Count(kAIO_REDIRECT_INPUT_ERROR_EVENT, notes) > 0)
        => /\ pumpPc = "idle"
           /\ Count(kAIO_REDIRECT_INPUT_ERROR_EVENT, notes) = 1
           /\ state = REDIR_STATE_WAITING_FOR_DATA
           /\ fdInOpen /\ fdOutOpen

\* C4: once a write has failed with an error other than would-block, the pump
\* invocation has returned with exactly one "output error" told to the owner:
\* the write is not retried within the invocation.
C4_OutputErrorReturns ==
    (redirLive /\ Count(kAIO_REDIRECT_OUTPUT_ERROR_EVENT, notes) > 0)
        => /\ pumpPc = "idle"
           /\ Count(kAIO_REDIRECT_OUTPUT_ERROR_EVENT, notes) = 1

\* ------------------------------------------------------------------------
\* The reactor
\* ------------------------------------------------------------------------

\* C5: a handle that was released from within its own callback is not used
\* by the dispatcher for the rest of the pass (the events of that wait): no
\* field of it is read or written and no callback of it is called, on both
\* backends and from both entry points.
C5_SelfReleaseNoAccess ==
    \A h \in Handles : relBy[h] = h => h \notin uafAcc

\* the dispatcher went on to use a handle that had released itself
C5_SelfReleaseThenUse ==
    \E h \in Handles : relBy[h] = h /\ h \in uafAcc /\ pc # "crashed"

\* C6: on the kernel-queue backend, when the callback of a read event releases
\* its own handle, Release clears the in-progress marker and no
\* kAIO_CONNECTION_CLOSED is delivered to that handle in that pass, whether
\* or not the read event carried EV_EOF.
C6_NoClosedAfterSelfRelease ==
    backend = "kqueue" =>
        /\ (pc = "callback" /\ cb.ev = kAIO_CONNECTION_CLOSED) => ~cb.selfrel
        /\ (pc = "callback" /\ cb.live /\ relBy[cb.h] = cb.h)
               => anioInProgress = NULL

\* a read event with EV_EOF whose callback released the handle has been
\* dispatched, and the loop has gone on without the close event
C6_SelfReleasedBeforeEof ==
    /\ backend = "kqueue"
    /\ pc = "run_wait"
    /\ ctx.num = 1
    /\ ctx.kv[1].filter = "READ"
    /\ ctx.kv[1].eof
    /\ relBy[ctx.kv[1].udata] = ctx.kv[1].udata
    /\ anioInProgress = NULL

\* C7: on the kernel-queue backend, a handle that the callback of another
\* handle released while a fetched batch is being processed is not used for
\* the rest of the batch.
C7_BatchReleaseNoAccess ==
    (backend = "kqueue" /\ entry = "Process")
        => \A h \in Handles : relBy[h] \in Handles \ { h } => h \notin uafAcc

\* C8: once Release( h, false ) has returned, the backend holds no
\* registration that refers to h: no kernel-queue registration tagged with
\* h, no interest bit of a descriptor whose user data is h, and h is not in
\* the armed-timer list.
ReleasedOpen(h) ==
    /\ Freed(h)
    /\ anio[h].type \in { kAIO_TYPE_LISTENER, kAIO_TYPE_CONNECTION }
           => anio[h].fd # kInvalidFD

RefersTo(h) ==
    \/ \E r \in anioKQ : r.udata = h
    \/ \E f \in anioReadSet \cup anioWriteSet : userdata[f] = h
    \/ \E i \in 1..Len(ListFrom(anio, enabled_timers, NumHandles + 1)) :
           ListFrom(anio, enabled_timers, NumHandles + 1)[i] = h

C8_ReleaseUnregisters ==
    \A h \in Handles : ReleasedOpen(h) => ~RefersTo(h)

\* C9: a kAIO_DATA_AVAILABLE is delivered to a Connection handle only if
\* AsyncIO_NotifyOnReadability was called on it since the previous
\* kAIO_DATA_AVAILABLE delivered to it.
C9_OneShotRead ==
    (pc = "callback" /\ cb.live /\ cb.ev = kAIO_DATA_AVAILABLE)
        => cb.how # "used"

\* a second kAIO_DATA_AVAILABLE reaches a handle that asked again
C9_SecondDelivery ==
    /\ pc = "callback" /\ cb.live /\ cb.ev = kAIO_DATA_AVAILABLE
    /\ cb.how = "fresh"
    /\ req[cb.h].rd = "used"

\* C10: kAIO_NEW_CONNECTION, kAIO_DATA_AVAILABLE and kAIO_READY_FOR_WRITE are
\* delivered to a handle only if the interest was requested since the
\* previous delivery of that event to it, for Listeners as for Connections,
\* on both backends.
C10_OneShotAll ==
    (/\ pc = "callback" /\ cb.live
     /\ cb.ev \in { kAIO_NEW_CONNECTION, kAIO_DATA_AVAILABLE, kAIO_READY_FOR_WRITE })
        => cb.how # "used"

\* C11: on the kernel-queue backend a read event that carries EV_EOF gives
\* the handle its data-ready event first and kAIO_CONNECTION_CLOSED next, in
\* the same cycle, when the callback did not release the handle: a
\* kAIO_CONNECTION_CLOSED to a live Connection comes right after the return of
\* its kAIO_DATA_AVAILABLE callback for the same event (never in its place),
\* and that return is followed by kAIO_CONNECTION_CLOSED.
C11_DataThenClosed ==
    [][ /\ ( /\ pc' = "callback" /\ cb' # cb /\ cb'.live
             /\ cb'.ev = kAIO_CONNECTION_CLOSED
             /\ anio[cb'.h].type = kAIO_TYPE_CONNECTION )
            => ( /\ backend = "kqueue" /\ pc = "callback"
                 /\ cb.h = cb'.h /\ cb.ev = kAIO_DATA_AVAILABLE
                 /\ cb.resume = "main" /\ scan' = scan /\ ctx' = ctx )
        /\ ( /\ backend = "kqueue" /\ pc = "callback" /\ cb' # cb
             /\ cb.ev = kAIO_DATA_AVAILABLE /\ cb.resume = "main"
             /\ ctx.kv[scan.i].eof /\ Live(cb.h) )
            => ( /\ pc' = "callback" /\ cb'.h = cb.h
                 /\ cb'.ev = kAIO_CONNECTION_CLOSED )
      ]_vars

\* a live Connection is told kAIO_CONNECTION_CLOSED after its data
C11_ClosedAfterData ==
    /\ backend = "kqueue" /\ pc = "callback" /\ cb.live /\ Live(cb.h)
    /\ cb.ev = kAIO_CONNECTION_CLOSED /\ cb.resume = "eof"
    /\ anio[cb.h].type = kAIO_TYPE_CONNECTION
    /\ req[cb.h].rd = "used"

\* ------------------------------------------------------------------------
\* The pump end to end
\* ------------------------------------------------------------------------
\* C12: when the input yields one chunk of 1..BufCap bytes and then end of
\* input, and every write is accepted in full, the owner is told "data
\* written" exactly once and then "input closed" exactly once, and is told
\* of no error.
C12_WrittenThenClosed ==
    /\ [](/\ Count(kAIO_REDIRECT_INPUT_ERROR_EVENT, notes) = 0
          /\ Count(kAIO_REDIRECT_OUTPUT_ERROR_EVENT, notes) = 0
          /\ chunkWritten <= 1
          /\ Count(kAIO_REDIRECT_INPUT_CLOSED_EVENT, notes) <= 1
          /\ (Count(kAIO_REDIRECT_INPUT_CLOSED_EVENT, notes) = 1
                 => chunkWritten = 1))
    /\ <>(/\ chunkWritten = 1
          /\ Count(kAIO_REDIRECT_INPUT_CLOSED_EVENT, notes) = 1)

\* ------------------------------------------------------------------------
\* The entry points
\* ------------------------------------------------------------------------
\* C13: AsyncIO_Run( false ) waits once on the backend, dispatches what that
\* wait returned and returns: once its wait has returned and the dispatch has
\* begun, the single pass never goes back to the backend wait, on either
\* backend, whatever the callbacks arm.
C13_SinglePassOneWait ==
    [][ ( /\ entry = "Run" /\ ~keepRunning
          /\ pc \in { "dispatch", "callback" } )
        => pc' # "run_wait" ]_vars

\* a single pass on select that returned after the callback of its one wait
C13_SinglePassDone ==
    /\ backend = "select" /\ pc = "idle" /\ result = -1
    /\ \E h \in Handles : req[h].rd = "used" /\ Live(h)

\* ------------------------------------------------------------------------
\* The timers of the select backend
\* ------------------------------------------------------------------------
\* the smaller of the caller's timeout and the time left to the next timer,
\* -1 standing for "none"
SmallerTimeout(tmo, timer) ==
    IF timer = NULL THEN tmo
    ELSE IF tmo = -1 THEN Remaining(anio, timer, now)
    ELSE Min(tmo, Remaining(anio, timer, now))

\* C14: AsyncIO_WaitForEvents on the select backend calls select with the
\* smaller of the caller's timeout and the time left to the next timer
\* deadline: the caller's timeout when no timer is armed, the timer's time
\* left when the caller gives none.
C14_EffectiveTimeout ==
    [][ ( backend = "select" /\ pc = "idle" /\ pc' = "waited" )
        => ctx'.to = SmallerTimeout(ctx'.tmo,
                                    NextTimer(anio, enabled_timers)) ]_vars

\* the armed timers, and a step in which a backend wait has looked up the
\* next deadline (AsyncIO_GetNextTimerFireTime) and called select
ArmedTimers ==
    LET l == ListFrom(anio, enabled_timers, NumHandles + 1)
    IN  { l[i] : i \in 1..Len(l) }
WaitStep ==
    /\ backend = "select"
    /\ pc \in { "idle", "run_wait" } /\ pc' \in { "waited", "dispatch" }

\* C15: whenever at least one timer is armed, the scan for the next deadline
\* returns an armed timer whose deadline is the smallest of all armed
\* timers, with a time left of max(0, deadline - now).
C15_NextDeadline ==
    [][ ( WaitStep /\ ArmedTimers # { } )
        => LET t == aio_next_enabled_timer'
           IN  /\ t \in ArmedTimers
               /\ \A g \in ArmedTimers :
                     anio[t].next_fire_time <= anio[g].next_fire_time
               /\ LET left == anio[t].next_fire_time - now
                       rem  == IF left > 0 THEN left ELSE 0
                   IN  ctx'.to = IF ctx'.tmo = -1 THEN rem
                                 ELSE Min(ctx'.tmo, rem) ]_vars

\* the deadline of timer h is the present millisecond or an earlier one
Due(h) == TicksLeft(anio[h].next_fire_time) >= TicksLeft(now)

\* C16: EnableTimer( h, 0 ) sets the deadline of h to the present
\* millisecond; with h the only armed timer, a lookup of the next deadline
\* in that millisecond or in a later one returns h with a time left of
\* exactly 0, and the time left of a returned timer is never negative.
C16_ZeroRemaining ==
    [][ /\ \A h \in Handles :
              ( WaitStep /\ ArmedTimers = { h } /\ Due(h) )
                  => ( aio_next_enabled_timer' = h /\ ctx'.to = 0 )
        /\ ( WaitStep /\ aio_next_enabled_timer' # NULL ) => ctx'.to >= 0
      ]_vars

\* how often timer h is met by a walk of the armed list
TimesArmed(h) ==
    LET l == ListFrom(anio, enabled_timers, NumHandles + 1)
    IN  Cardinality({ i \in 1..Len(l) : l[i] = h })

\* the select dispatcher calls a timer's callback with kAIO_TIMER_FIRED
FireStep ==
    /\ backend = "select" /\ pc = "dispatch"
    /\ pc' = "callback" /\ cb'.ev = kAIO_TIMER_FIRED /\ cb'.live

\* C17: the timers of the select backend are one-shot.  The timer that fires
\* was armed and is taken off the armed list before its callback runs; a
\* timer that is not armed does not fire; and EnableTimer called from
\* inside the kAIO_TIMER_FIRED callback puts the timer on the list exactly
\* once (the list being well formed: no timer was armed twice).
C17_TimerOneShot ==
    [][ /\ FireStep => ( /\ cb'.h \in ArmedTimers
                         /\ cb'.h \notin ArmedTimers'
                         /\ anio'[cb'.h].next_timer = NULL )
        /\ ( /\ backend = "select" /\ pc = "callback" /\ pc' = "callback"
             /\ cb.ev = kAIO_TIMER_FIRED /\ cb.live
             /\ ~ListLoops(anio, enabled_timers)
             /\ cb.h \notin ArmedTimers /\ cb.h \in ArmedTimers' )
            => ( TimesArmed(cb.h)' = 1 /\ ~ListLoops(anio', enabled_timers') )
      ]_vars

\* a timer was armed again from inside its kAIO_TIMER_FIRED callback
C17_ReenabledInCallback ==
    /\ backend = "select" /\ pc = "callback" /\ cb.live
    /\ cb.ev = kAIO_TIMER_FIRED /\ TimesArmed(cb.h) = 1

\* the armed-timer list of the select backend, head first
TimerList == ListFrom(anio, enabled_timers, NumHandles + 1)

\* the step is a call of AsyncIO_DisableTimer on the select backend that
\* returned, the list being well formed
DisableStep ==
    /\ backend = "select"
    /\ lastCall'.op = "DisableTimer"
    /\ ~ListLoops(anio, enabled_timers)

\* C18: on the select backend AsyncIO_DisableTimer on a timer that is not in
\* the armed list (the list empty, or holding other timers only) returns -1
\* and leaves the list, its order and every record as they were;
\* on a timer in the list it returns 0 and takes exactly that timer out:
\* the others stay armed in their order, with their deadlines
C18_DisableTimerResult ==
    [][ DisableStep =>
          LET h == lastCall'.arg
          IN  IF h \notin ArmedTimers
              THEN /\ lastCall'.res = -1
                   /\ TimerList' = TimerList
                   /\ anio' = anio
              ELSE /\ lastCall'.res = 0
                   /\ TimerList' = SelectSeq(TimerList, LAMBDA g : g # h)
                   /\ \A g \in Handles :
                         /\ anio'[g].st = anio[g].st
                         /\ anio'[g].next_fire_time = anio[g].next_fire_time
      ]_vars

\* AsyncIO_DisableTimer has returned -1 for a timer that is not armed while
\* another timer is
C18_AbsentFromArmedList ==
    /\ backend = "select"
    /\ lastCall.op = "DisableTimer" /\ lastCall.res = -1
    /\ lastCall.arg \notin ArmedTimers
    /\ ArmedTimers # { }

\* the step is a call of one of the two descriptor constructors in which a
\* system call failed
FailedSysCallStep ==
    lastCall'.op \in { "NewConnectionListener", "NewConnection" }

\* C19: in AsyncIO_NewConnectionListener and in AsyncIO_NewConnection alike,
\* a failure to read or to set the descriptor flags makes the constructor
\* return NULL, unless fcntl( F_SETFL ) failed with ENOTTY: that is
\* tolerated and the handle is made; a constructor that returns NULL has
\* not closed the descriptor and leaves no interest registered: the kernel
\* queue, the interest sets and the descriptor's user data are as before
C19_ConstructorFailure ==
    [][ FailedSysCallStep =>
          /\ lastCall'.err = "enotty" => lastCall'.res # NULL
          /\ lastCall'.err \in { "getfl", "setfl" } => lastCall'.res = NULL
          /\ lastCall'.res = NULL =>
                UNCHANGED << anio, anioKQ, anioReadSet, anioWriteSet, userdata >>
      ]_vars

\* AsyncIO_Run leaves through "exit:" with the failure result
RunFails == pc' = "idle" /\ result' = -1 /\ anioInProgress' = NULL

\* the step is a kevent call of AsyncIO_Run that was interrupted by a signal
InterruptedStep ==
    /\ backend = "kqueue" /\ pc = "run_wait"
    /\ lastCall'.op = "kevent" /\ lastCall'.err = "EINTR"

\* ... while debug_running_in_debugger() held
DebuggerInterrupt == InterruptedStep /\ lastCall'.arg = 1

\* C20: in AsyncIO_Run( true ) a wait that fails ends the loop: AsyncIO_Run
\* returns -1 with the in-progress marker cleared, and no callback is called
\* for that wait.  kqueue: a kevent call that returns no event is followed
\* at once by the return; select: after a select that returned a negative
\* number the next step is the return.  (The interruption under a debugger,
\* which is set apart as tolerated, is the subject of C21.)
C20_WaitErrorEndsLoop ==
    [][ (entry = "Run" /\ keepRunning) =>
          /\ ( /\ backend = "kqueue" /\ pc = "run_wait" /\ pc' # "dispatch"
               /\ ~DebuggerInterrupt )
                => RunFails
          /\ (backend = "select" /\ pc = "dispatch" /\ ctx.num < 0)
                => RunFails
      ]_vars

\* select has failed in AsyncIO_Run( true )
C20_WaitFailedInLoop ==
    /\ backend = "select" /\ entry = "Run" /\ keepRunning
    /\ pc = "dispatch" /\ ctx.num < 0

\* C21: a kevent call of AsyncIO_Run that fails with EINTR while the process
\* runs under a debugger is tried again: no event is dispatched, nothing is
\* changed and the loop goes on; interrupted without a debugger,
\* AsyncIO_Run returns -1
C21_InterruptedWait ==
    [][ InterruptedStep =>
          IF lastCall'.arg = 1
          THEN /\ pc' = "run_wait"
               /\ UNCHANGED << world, frame, anioInProgress, cb, result >>
          ELSE RunFails
      ]_vars

\* a wait has just been tried again after an interruption under a debugger
C21_RetriedUnderDebugger ==
    /\ pc = "run_wait" /\ anioKQ # { }
    /\ lastCall.op = "kevent" /\ lastCall.err = "EINTR" /\ lastCall.arg = 1

\* the host calls the bridge / the bridge returns to the host
BridgeCalled == ~runLoop.inCallBack /\ runLoop'.inCallBack
BridgeDone == runLoop.inCallBack /\ ~runLoop'.inCallBack

\* C22: each call of the bridge by the host makes one call of
\* AsyncIO_Run( false ), and when the bridge returns, whatever AsyncIO_Run
\* returned, the host's read callback is enabled again
C22_BridgeRearms ==
    [][ /\ BridgeCalled => ( /\ pc = "idle" /\ pc' = "run_wait"
                             /\ entry' = "Run" /\ ~keepRunning' )
        /\ (runLoop.inCallBack /\ pc' = "run_wait") => pc # "idle"
        /\ BridgeDone => (pc' = "idle" /\ runLoop'.armed)
      ]_vars

\* C23: the in-progress marker names no handle while the loop is in the
\* backend wait and when AsyncIO_Run or AsyncIO_ProcessEvents has returned;
\* while the callback of handle h runs the marker is h, or it is NULL and
\* then h was released from inside that callback.  (The marker is one
\* variable: it never names two handles.)
C23_MarkerInvariant ==
    /\ anioInProgress \in { NULL } \cup Handles
    /\ pc \in { "idle", "run_wait", "waited" } => anioInProgress = NULL
    /\ pc = "callback" =>
          \/ anioInProgress = cb.h
          \/ /\ anioInProgress = NULL
             /\ Freed(cb.h) /\ relBy[cb.h] = cb.h

\* a callback goes on after it has released its own handle
C23_SelfReleasedInCallback ==
    /\ pc = "callback" /\ cb.live
    /\ anioInProgress = NULL /\ Freed(cb.h)

\* C24: the pump is in one of its two states, and it never waits for its
\* input to become readable and for its output to become writable at once:
\* at most one of anio_in->notifyOnRead and anio_out->notifyOnWrite is set
C24_OneInterestOneState ==
    /\ state \in { REDIR_STATE_WAITING_FOR_DATA, REDIR_STATE_SENDING }
    /\ ~(in_notifyOnRead /\ out_notifyOnWrite)

\* the pump is suspended with bytes to send, waiting for its output
C24_SuspendedOnWrite ==
    /\ redirLive /\ pumpPc = "idle"
    /\ state = REDIR_STATE_SENDING /\ out_notifyOnWrite /\ ~in_notifyOnRead

\* C25: the count of buffered bytes is within 0..sizeof( buffer ), no read
\* returns more than sizeof( buffer ) bytes, and no write offers more bytes
\* than the buffer holds unsent
C25_BufferBound ==
    /\ num_in_buffer \in 0..BufCap
    /\ Len(chunkIn) <= BufCap
    /\ lastWrite.offered <= lastWrite.unsent

\* the pump is about to read in WaitingForData from an input that has given
\* its chunk and whose peer has closed: read returns 0
ZeroReadDue ==
    /\ pumpPc = "pumping" /\ state = REDIR_STATE_WAITING_FOR_DATA
    /\ ~InputHasData /\ inEof

\* C26: a read of 0 bytes in WaitingForData ends the pump invocation and
\* nothing else: the owner is not called, neither the read interest of the
\* input nor the write interest of the output is armed, the count of
\* buffered bytes and the state are as before
C26_ZeroReadSilent ==
    [][ ZeroReadDue =>
          /\ pumpPc' = "idle"
          /\ notes' = notes
          /\ ~in_notifyOnRead' /\ ~out_notifyOnWrite'
          /\ num_in_buffer' = num_in_buffer
          /\ state' = REDIR_STATE_WAITING_FOR_DATA
      ]_vars

\* the pump has stopped after a read of 0 bytes
C26_StoppedAfterZeroRead ==
    /\ pumpPc = "idle" /\ state = REDIR_STATE_WAITING_FOR_DATA
    /\ ~InputHasData /\ inEof
    /\ ~in_notifyOnRead /\ ~eofPending

\* the step is a call of AsyncIO_ReleaseRedirect( redir, closeIn, closeOut )
ReleaseRedirectStep == redirLive /\ lastCall'.op = "ReleaseRedirect"

\* C27: AsyncIO_ReleaseRedirect releases both handles of the pump, so that
\* no interest of theirs stays armed; it closes the input descriptor when
\* and only when closeIn is set, and the output descriptor when and only
\* when closeOut is set.  Before the release both descriptors are open.
C27_ReleaseRedirect ==
    [][ /\ redirLive => (fdInOpen /\ fdOutOpen)
        /\ ReleaseRedirectStep =>
              /\ ~redirLive'
              /\ ~in_notifyOnRead' /\ ~out_notifyOnWrite'
              /\ fdInOpen' = (lastCall'.arg \div 2 = 0)
              /\ fdOutOpen' = (lastCall'.arg % 2 = 0)
      ]_vars

\* the pump was released with its input closed and its output left open
C27_ClosedInputOnly ==
    /\ ~redirLive /\ lastCall.op = "ReleaseRedirect"
    /\ ~fdInOpen /\ fdOutOpen

\* the step is a delivery of kAIO_DATA_AVAILABLE to the input handle
DataAvailableStep ==
    /\ pumpPc = "idle" /\ pumpPc' = "pumping"
    /\ notes' = << kAIO_REDIRECT_DATA_READY >>

\* the step is a delivery of kAIO_READY_FOR_WRITE to the output handle
ReadyForWriteStep ==
    /\ pumpPc = "idle" /\ pumpPc' = "pumping"
    /\ notes' = << >>

WouldBlockStep ==
    /\ redirLive /\ pumpPc = "pumping"
    /\ lastCall'.err = "EWOULDBLOCK"

\* redirect_Pump is not running and no callback of the pump is due
Suspended == redirLive /\ pumpPc = "idle" /\ ~eofPending

ReadArmed(h) ==
    /\ anio[h].notifyOnRead
    /\ IF backend = "kqueue"
       THEN Reg("READ", anio[h].fd, h, TRUE) \in anioKQ
       ELSE anio[h].fd \in anioReadSet /\ userdata[anio[h].fd] = h

\* the write interest of h is registered and its flag is set
WriteArmed(h) ==
    /\ anio[h].notifyOnWrite
    /\ IF backend = "kqueue"
       THEN Reg("WRITE", anio[h].fd, h, TRUE) \in anioKQ
       ELSE anio[h].fd \in anioWriteSet /\ userdata[anio[h].fd] = h

\* the step is the return of the callback of h, called with an event of evs,
\* to the dispatcher; h has not been released
CallbackReturns(h, evs) ==
    /\ pc = "callback" /\ cb.h = h /\ cb.live /\ cb.ev \in evs
    /\ Live(h)
    /\ pc' # "callback" \/ cb' # cb

\* C30: when the callback that was called with a read event (a write event)
\* of a handle has called AsyncIO_NotifyOnReadability
\* (AsyncIO_NotifyOnWritability) on that handle, then after its return to
\* the dispatcher the interest is registered and the armed flag of the
\* handle is set, on both backends.
C30_RearmInCallback ==
    [][ \A h \in Handles :
          /\ (CallbackReturns(h, ReadEvents) /\ req[h].rd = "fresh")
                => ReadArmed(h)'
          /\ (CallbackReturns(h, { kAIO_READY_FOR_WRITE }) /\ req[h].wr = "fresh")
                => WriteArmed(h)'
      ]_vars

\* the callback of a Connection, called with kAIO_DATA_AVAILABLE, has armed
\* the read interest of its handle again and is about to return
C30_RearmedInCallback ==
    \E h \in Handles :
        /\ pc = "callback" /\ cb.h = h /\ cb.live
        /\ cb.ev = kAIO_DATA_AVAILABLE
        /\ Live(h) /\ req[h].rd = "fresh" /\ ReadArmed(h)

\* C31: on the select backend the callback of a timer is not called with
\* kAIO_TIMER_FIRED before the deadline of the timer, also when
\* AsyncIO_WaitForEvents was given a timeout shorter than the time left to
\* the timer and select timed out with no descriptor ready.
C31_NotBeforeDeadline ==
    [][ FireStep => anio[cb'.h].next_fire_time <= now ]_vars

\* C32: while the select loop of AsyncIO_Run is kept running, an armed timer
\* whose deadline has passed gets its kAIO_TIMER_FIRED (which takes it off
\* the armed list), also when each wait reports a ready descriptor.
C32_DueTimerFires ==
    \A h \in Handles :
        (IsTimer(h) /\ OnTimerList(h) /\ anio[h].next_fire_time <= now)
            ~> ~OnTimerList(h)

\* C33: on the select backend the armed list is always a finite chain that
\* ends in NULL and holds each timer at most once, whatever calls of
\* EnableTimer, DisableTimer and Release and whatever firings came before
\* (EnableTimer on a timer that is already armed included), so that the
\* scans of the list end.
C33_ListWellFormed ==
    backend = "select" =>
        /\ ~ListLoops(anio, enabled_timers)
        /\ \A h \in Handles : TimesArmed(h) <= 1
        /\ pc # "hung"

\* C34: on both backends kAIO_TIMER_FIRED is delivered only to a timer that
\* has not been released and on which AsyncIO_EnableTimer was called after
\* the latest AsyncIO_DisableTimer, also when the wait had already chosen
\* the timer (select) or fetched its event (kqueue, AsyncIO_ProcessEvents).
C34_DisabledTimerSilent ==
    (pc = "callback" /\ cb.ev = kAIO_TIMER_FIRED)
        => (cb.live /\ cb.how = "on")

\* the step is a call of AsyncIO_EnableTimer on the select backend that arms
\* timer h, h being the only armed timer after it
ArmsOnly(h) ==
    /\ backend = "select"
    /\ h \notin ArmedTimers
    /\ ArmedTimers' = { h }

\* C35: on the select backend, for every value of the millisecond counter
\* and every interval ms (the sum passing or meeting the largest counter
\* value included), right after AsyncIO_EnableTimer( h, ms ) has armed h as
\* the only timer, the lookup of the next deadline at the same counter
\* value returns h with a time left of ms.
C35_WrapArithmetic ==
    [][ \A h \in Handles :
          ArmsOnly(h) =>
              /\ NextTimer(anio', enabled_timers') = h
              /\ Remaining(anio', h, now')
                    = (anio'[h].next_fire_time - now) % (MaxCounter + 1)
      ]_vars

\* a read interest, a write interest of h is registered with the backend
ReadRegistered(h) ==
    IF backend = "kqueue"
    THEN \E r \in anioKQ :
            r.filter = "READ" /\ r.ident = anio[h].fd /\ r.udata = h
    ELSE anio[h].fd \in anioReadSet /\ userdata[anio[h].fd] = h
WriteRegistered(h) ==
    IF backend = "kqueue"
    THEN \E r \in anioKQ :
            r.filter = "WRITE" /\ r.ident = anio[h].fd /\ r.udata = h
    ELSE anio[h].fd \in anioWriteSet /\ userdata[anio[h].fd] = h

\* C36: for every live Listener or Connection, at every point outside its
\* own callback, the read-armed flag is set exactly when a read interest
\* of the handle is registered with the backend, and the write-armed flag
\* exactly when a write interest is.
C36_FlagsAgree ==
    \A h \in Handles :
        ( /\ HasDescriptor(h)
          /\ ~(pc = "callback" /\ cb.h = h) )
        => /\ anio[h].notifyOnRead <=> ReadRegistered(h)
           /\ anio[h].notifyOnWrite <=> WriteRegistered(h)

\* C37: on the select backend, a handle that a callback released (its own
\* or another) during a pass is not used for the rest of the pass, its
\* descriptor being still set in the copies of the sets that select filled
\* in: no callback of it is called and no field of it is read or written.
C37_SnapshotReleaseNoAccess ==
    backend = "select" =>
        \A h \in Handles : relBy[h] \in Handles => h \notin uafAcc

\* C38: after the owner has released the pump from within one of its
\* notifications (data ready, data written, input closed, input error,
\* output error), neither the pump record nor either of its two handles is
\* used again.
C38_OwnerReleaseSafe ==
    ~redirLive => uafAcc = { }

\* the step is the return of AsyncIO_Run( false )
SinglePassReturns ==
    /\ pc \in { "run_wait", "dispatch", "callback" } /\ entry = "Run"
    /\ ~keepRunning
    /\ pc' = "idle"

\* ... after a wait that failed: a failed kevent call; a failed select, or
\* a select that was not called for want of a descriptor and a timer
WaitFailed ==
    IF backend = "kqueue" THEN lastCall'.op = "kevent"
    ELSE pc = "run_wait" \/ (pc = "dispatch" /\ ctx.num < 0)

\* C39: AsyncIO_Run( false ) returns 0 when the wait succeeded and the
\* ready events, or the timer that had run out, were dispatched, and a
\* failure value only when the wait failed, on both backends.
C39_SinglePassResult ==
    [][ SinglePassReturns => (result' = 0 <=> ~WaitFailed) ]_vars
====
